---- MODULE Spec2Model ----
(***************************************************************************)
(* Model of the request orchestration core of special_agent:               *)
(* agent_logic.process_conversation_input, check_and_cleanup_sessions and  *)
(* handle_confirmation_phase, with data_sources.execute_ha_command and     *)
(* gpt_commands.classify_intent.  One request is one action; wall-clock    *)
(* time advances between requests.                                         *)
(***************************************************************************)
EXTENDS Integers, Sequences, FiniteSets, TLC

VARIABLES
    pending_dict,   \* hass.data["special_agent_pending"]: device_id -> session
    now,            \* datetime.datetime.now(), in seconds
    api_key,        \* config_data["openai_api_key"] is set
    last,           \* observation of the most recent request
    history_file,   \* command_history.json: [exists, readable, entries]
    log_calls,      \* the entries handed to the history so far, in call order,
                    \* and whether every call found the file usable
    jobs,           \* the calls of process_conversation_input running in the
                    \* executor: job -> [pc, device_id, user_text, locals]
    embeddings_file, \* data/vector_index/embeddings.npy: [state, matrix]
    mapping_file,   \* data/vector_index/mapping.json: [state, text]
    rebuild,        \* the call of build_vector_index in progress: [pc, locals]
    loader          \* the call of load_vector_index in progress: [pc, locals]

historyVars == <<history_file, log_calls>>
executorVars == <<jobs>>
indexVars == <<embeddings_file, mapping_file, rebuild, loader>>

vars == <<pending_dict, now, api_key, last, historyVars, executorVars, indexVars>>

----------------------------------------------------------------------------
(* Bounds of the model *)

\* the clock advances by Step or Step + 1 seconds between requests
Step == 150
\* the clock stops advancing here
MaxTime == 301

\* the number of log_command calls followed in HistorySpec
MaxLogs == 1002
\* the history file can be found damaged only during the first EarlyCalls calls
EarlyCalls == 1
\* the longest command list confirmed in MessageSpec
MaxRun == 4
\* the longest document list handed to build_vector_index
MaxDocs == 51
\* the largest index queried and the largest k asked for in RetrievalSpec
MaxIndex == 3
MaxK == 4
\* the longest entity list filtered in RetrievalSpec
MaxEntities == 3
\* LiveSpec opens no session after this time, so that its clock can stop
OpenUntil == 151
\* the utterances of one run of ReplaySpec
MaxReplies == 3
\* the log_command calls of one run of LoggerSpec
MaxWrites == 4

(* Program constants *)
SESSION_TIMEOUT == 300
\* command_history.py line 78: the history keeps the last 1000 entries
HistoryCap == 1000
\* vector_index.py line 20: the texts embedded by one provider call
batch_size == 50
\* agent_logic.py lines 107-108: k of the query and filter_qty of the rerank
RetrievalK == 50
FilterQty == 20

Keys == {"device_1", "device_2"}

----------------------------------------------------------------------------
(* Python strings: str.lower(), str.strip(), the `in` substring test *)

UpperChars == "ABCDEFGHIJKLMNOPQRSTUVWXYZ"
LowerChars == "abcdefghijklmnopqrstuvwxyz"
Whitespace == {" ", "\t", "\n", "\r"}

CharAt(s, i) == SubSeq(s, i, i)

LowerChar(c) ==
    IF \E i \in 1..Len(UpperChars) : CharAt(UpperChars, i) = c
    THEN CharAt(LowerChars, CHOOSE i \in 1..Len(UpperChars) : CharAt(UpperChars, i) = c)
    ELSE c

RECURSIVE Lower(_)
Lower(s) ==
    IF Len(s) = 0 THEN ""
    ELSE LowerChar(CharAt(s, 1)) \o Lower(SubSeq(s, 2, Len(s)))

RECURSIVE LStrip(_)
LStrip(s) ==
    IF Len(s) > 0 /\ CharAt(s, 1) \in Whitespace
    THEN LStrip(SubSeq(s, 2, Len(s)))
    ELSE s

RECURSIVE RStrip(_)
RStrip(s) ==
    IF Len(s) > 0 /\ CharAt(s, Len(s)) \in Whitespace
    THEN RStrip(SubSeq(s, 1, Len(s) - 1))
    ELSE s

Strip(s) == RStrip(LStrip(s))

\* Python `sub in s`
Contains(s, sub) ==
    \E i \in 1..(Len(s) - Len(sub) + 1) : SubSeq(s, i, i + Len(sub) - 1) = sub

\* len(s.split(sep)) for a one-character separator
SplitCount(s, sep) ==
    1 + Cardinality({i \in 1..Len(s) : CharAt(s, i) = sep})

----------------------------------------------------------------------------
(* JSON values as json.loads produces them *)

JStr(s)  == [t |-> "str", s |-> s]
JNum(n)  == [t |-> "num", n |-> n]
JObj(f)  == [t |-> "obj", o |-> f]
JList(l) == [t |-> "list", l |-> l]

\* isinstance(v, dict)
IsDict(v) == v.t = "obj"
\* isinstance(v, list)
IsList(v) == v.t = "list"
\* `k in d`
HasKey(d, k) == k \in DOMAIN d.o
\* d.get(k, default)
Get(d, k, default) == IF HasKey(d, k) THEN d.o[k] ELSE default

----------------------------------------------------------------------------
(* Commands the synthesizer can return, and json.loads on its outputs *)

cmd_light ==
    JObj([service |-> JStr("light.turn_on"),
          data |-> JObj([entity_id |-> JStr("light.living_room")])])
cmd_media ==
    JObj([service |-> JStr("media_player.play_media"),
          data |-> JObj([entity_id |-> JStr("media_player.kitchen_sonos")])])
\* a service name that is not "domain.action"
cmd_badservice ==
    JObj([service |-> JStr("turn_on"),
          data |-> JObj([entity_id |-> JStr("light.bedroom")])])
\* an object without "data"
cmd_nodata == JObj([service |-> JStr("light.turn_off")])
\* a list element that is not an object
cmd_text == JStr("turn on the light")

\* what ask_gpt_for_rest_command can hand back, with the value json.loads
\* gives for it (ok = FALSE: json.loads raises)
SynthTable == {
    [text |-> "[]", ok |-> TRUE, value |-> JList(<< >>)],
    [text |-> "[{\"service\": \"light.turn_on\", \"data\": {\"entity_id\": \"light.living_room\"}}]",
     ok |-> TRUE, value |-> JList(<<cmd_light>>)],
    [text |-> "{\"service\": \"light.turn_on\", \"data\": {\"entity_id\": \"light.living_room\"}}",
     ok |-> TRUE, value |-> cmd_light],
    [text |-> "[{\"service\": \"light.turn_on\", \"data\": {\"entity_id\": \"light.living_room\"}}, {\"service\": \"media_player.play_media\", \"data\": {\"entity_id\": \"media_player.kitchen_sonos\"}}]",
     ok |-> TRUE, value |-> JList(<<cmd_light, cmd_media>>)],
    [text |-> "[{\"service\": \"turn_on\", \"data\": {\"entity_id\": \"light.bedroom\"}}, {\"service\": \"light.turn_off\"}]",
     ok |-> TRUE, value |-> JList(<<cmd_badservice, cmd_nodata>>)],
    [text |-> "[\"turn on the light\", {\"service\": \"light.turn_on\", \"data\": {\"entity_id\": \"light.living_room\"}}]",
     ok |-> TRUE, value |-> JList(<<cmd_text, cmd_light>>)],
    [text |-> "42", ok |-> TRUE, value |-> JNum(42)],
    [text |-> "Sure! Here are the commands:", ok |-> FALSE, value |-> JNum(0)]
}

SynthTexts == {e.text : e \in SynthTable}

\* json.loads(text): [ok, value]
json_loads(text) ==
    LET e == CHOOSE x \in SynthTable : x.text = text
    IN  [ok |-> e.ok, value |-> e.value]

\* the longest command list the synthesizer returns here
MaxCmds == 2

\* results of hass.services.call for the commands of one request, in order:
\* TRUE = the call returned, FALSE = it raised
Outcomes == [1..MaxCmds -> BOOLEAN]

----------------------------------------------------------------------------
(* data_sources.execute_ha_command *)

\* command["service"].split(".") raises AttributeError when the service is
\* not a string
execute_ha_command_raises(command) ==
    /\ IsDict(command)
    /\ HasKey(command, "service")
    /\ HasKey(command, "data")
    /\ command.o.service.t # "str"

\* the boolean it returns; service_ok is the outcome of hass.services.call
execute_ha_command(command, service_ok) ==
    IF IsDict(command) /\ HasKey(command, "service") /\ HasKey(command, "data")
    THEN IF SplitCount(command.o.service.s, ".") = 2
         THEN service_ok
         ELSE FALSE
    ELSE FALSE

----------------------------------------------------------------------------
(* command_history.log_command: the entry one call appends, as a sequence   *)
(* of zero or one entries (zero when the call fails inside its try block)   *)

\* cmd.get("data", {}).get("entity_id", "unknown") raises when "data" is
\* present and is not an object
data_get_raises(cmd) == HasKey(cmd, "data") /\ ~IsDict(cmd.o.data)

\* cmd.get("data", {}).get("entity_id", "unknown")
entity_id_of(cmd) ==
    IF HasKey(cmd, "data")
    THEN Get(cmd.o.data, "entity_id", JStr("unknown"))
    ELSE JStr("unknown")

RECURSIVE simplified_commands(_)
simplified_commands(commands_list) ==
    IF commands_list = << >> THEN << >>
    ELSE LET cmd == Head(commands_list)
             rest == simplified_commands(Tail(commands_list))
         IN  IF IsDict(cmd)
             THEN <<[service |-> Get(cmd, "service", JStr("unknown")),
                     entity_id |-> entity_id_of(cmd)]>> \o rest
             ELSE rest

log_command(user_text, device_id, command_response, commands_list, success, status, io_ok) ==
    IF \/ ~io_ok
       \/ \E i \in 1..Len(commands_list) :
             IsDict(commands_list[i]) /\ data_get_raises(commands_list[i])
    THEN << >>
    ELSE <<[user_text |-> user_text,
            device_id |-> device_id,
            session_id |-> device_id,
            response |-> command_response,
            success |-> success,
            status |-> status,
            has_commands |-> commands_list # << >>,
            commands |-> simplified_commands(commands_list)]>>

\* append_history that keeps the oldest entries when the cap is exceeded
append_history_keeps_oldest(file, entry) ==
    LET loaded == IF file.exists /\ file.readable THEN file.entries ELSE << >>
        appended == Append(loaded, entry)
    IN  [exists |-> TRUE, readable |-> TRUE,
         entries |-> IF Len(appended) > HistoryCap
                     THEN SubSeq(appended, 1, HistoryCap)
                     ELSE appended]

\* lines 63-83: load the file (an unreadable file counts as empty), append
\* the entry, keep the last 1000, write the file back
append_history(file, entry) ==
    LET loaded == IF file.exists /\ file.readable THEN file.entries ELSE << >>
        appended == Append(loaded, entry)
    IN  [exists |-> TRUE, readable |-> TRUE,
         entries |-> IF Len(appended) > HistoryCap
                     THEN SubSeq(appended, Len(appended) - HistoryCap + 1, Len(appended))
                     ELSE appended]

----------------------------------------------------------------------------
(* agent_logic.check_and_cleanup_sessions *)

\* a pop that empties the dict
Pop_clears(d, k) == [x \in {} |-> d[x]]

\* the dict without key k
Pop(d, k) == [x \in (DOMAIN d) \ {k} |-> d[x]]

\* the dict with d[k] = v
Put(d, k, v) == [x \in (DOMAIN d) \cup {k} |-> IF x = k THEN v ELSE d[x]]

\* expired_sessions that stops at the first expired key
expired_sessions_first_only(pending, t) ==
    LET all == {device_id \in DOMAIN pending :
                   /\ "timestamp" \in DOMAIN pending[device_id]
                   /\ t - pending[device_id].timestamp > SESSION_TIMEOUT}
    IN  IF all = {} THEN {} ELSE {CHOOSE device_id \in all : TRUE}

\* expired_sessions with >= in place of >
expired_sessions_inclusive(pending, t) ==
    {device_id \in DOMAIN pending :
        /\ "timestamp" \in DOMAIN pending[device_id]
        /\ t - pending[device_id].timestamp >= SESSION_TIMEOUT}

\* the keys collected in expired_sessions at time t
expired_sessions(pending, t) ==
    {device_id \in DOMAIN pending :
        /\ "timestamp" \in DOMAIN pending[device_id]
        /\ t - pending[device_id].timestamp > SESSION_TIMEOUT}

\* check_and_cleanup_sessions that counts the expired keys and removes none
check_and_cleanup_sessions_keeps(pending, t) ==
    [pending_dict |-> pending,
     count |-> Cardinality(expired_sessions(pending, t))]

\* the dict after the sweep and the count it returns
check_and_cleanup_sessions(pending, t) ==
    LET expired == expired_sessions(pending, t)
    IN  [pending_dict |-> [x \in (DOMAIN pending) \ expired |-> pending[x]],
         count |-> Cardinality(expired)]

----------------------------------------------------------------------------
(* agent_logic.handle_confirmation_phase *)

AffirmativeWords == {"yes", "yep", "yeah", "sure", "go ahead"}
NegativeWords == {"no", "nope", "nah"}

\* Python None as a response
NoneValue == "<None>"

\* execute_commands with success_flag overwritten by each result
RECURSIVE execute_commands_last_wins(_, _, _, _)
execute_commands_last_wins(commands_list, outcomes, i, acc) ==
    IF acc.raised \/ i > Len(commands_list) THEN acc
    ELSE LET cmd == commands_list[i] IN
         IF ~IsDict(cmd) \/ data_get_raises(cmd)
         THEN [acc EXCEPT !.raised = TRUE]
         ELSE IF execute_ha_command_raises(cmd)
         THEN [acc EXCEPT !.raised = TRUE,
                          !.execs = Append(@, [index |-> i, cmd |-> cmd, ok |-> FALSE])]
         ELSE LET ok == execute_ha_command(cmd, outcomes[i])
                  failed == [service |-> Get(cmd, "service", JStr("unknown")),
                             entity_id |-> entity_id_of(cmd)]
              IN  execute_commands_last_wins(commands_list, outcomes, i + 1,
                     [execs |-> Append(acc.execs, [index |-> i, cmd |-> cmd, ok |-> ok]),
                      success_flag |-> ok,
                      failed_cmds |-> IF ok THEN acc.failed_cmds
                                      ELSE Append(acc.failed_cmds, failed),
                      raised |-> FALSE])

\* the loop over commands_list (lines 337-344), from command i on.
\* acc: execs = the calls of execute_ha_command made so far with their
\* results, failed_cmds, success_flag, raised = an exception left the loop
RECURSIVE execute_commands(_, _, _, _)
execute_commands(commands_list, outcomes, i, acc) ==
    IF acc.raised \/ i > Len(commands_list) THEN acc
    ELSE LET cmd == commands_list[i] IN
         IF ~IsDict(cmd) \/ data_get_raises(cmd)
         THEN [acc EXCEPT !.raised = TRUE]
         ELSE IF execute_ha_command_raises(cmd)
         THEN [acc EXCEPT !.raised = TRUE,
                          !.execs = Append(@, [index |-> i, cmd |-> cmd, ok |-> FALSE])]
         ELSE LET ok == execute_ha_command(cmd, outcomes[i])
                  failed == [service |-> Get(cmd, "service", JStr("unknown")),
                             entity_id |-> entity_id_of(cmd)]
              IN  execute_commands(commands_list, outcomes, i + 1,
                     [execs |-> Append(acc.execs, [index |-> i, cmd |-> cmd, ok |-> ok]),
                      success_flag |-> acc.success_flag /\ ok,
                      failed_cmds |-> IF ok THEN acc.failed_cmds
                                      ELSE Append(acc.failed_cmds, failed),
                      raised |-> FALSE])

Min(a, b) == IF a < b THEN a ELSE b

\* str(n) for the small counts that occur
IntStr(n) == CASE n = 0 -> "0" [] n = 1 -> "1" [] n = 2 -> "2" [] n = 3 -> "3"
               [] n = 4 -> "4" [] n = 5 -> "5" [] n = 6 -> "6" [] n = 7 -> "7"
               [] n = 8 -> "8" [] n = 9 -> "9"

\* f"{v}" of a JSON value: a string prints as itself (other values print
\* as their Python repr, written here as the type in angle brackets)
PyStr(v) == IF v.t = "str" THEN v.s ELSE "<" \o v.t \o ">"

\* sep.join(strings)
RECURSIVE Join(_, _)
Join(strings, sep) ==
    IF strings = << >> THEN ""
    ELSE IF Len(strings) = 1 THEN strings[1]
    ELSE strings[1] \o sep \o Join(Tail(strings), sep)

\* confirmation_response that leaves out the count of the failures not named
confirmation_response_no_count(commands_list, run) ==
    IF run.success_flag THEN "Done."
    ELSE IF Len(run.failed_cmds) = Len(commands_list)
    THEN "Sorry, I couldn't complete any of the requested actions."
    ELSE LET names == [i \in 1..Len(run.failed_cmds) |->
                          PyStr(run.failed_cmds[i].service) \o " for "
                              \o PyStr(run.failed_cmds[i].entity_id)]
         IN  "Completed some actions, but had trouble with: "
                 \o Join(SubSeq(names, 1, Min(2, Len(names))), ", ")

\* the response of the affirmative branch (lines 351-360)
confirmation_response(commands_list, run) ==
    IF run.success_flag THEN "Done."
    ELSE IF Len(run.failed_cmds) = Len(commands_list)
    THEN "Sorry, I couldn't complete any of the requested actions."
    ELSE LET names == [i \in 1..Len(run.failed_cmds) |->
                          PyStr(run.failed_cmds[i].service) \o " for "
                              \o PyStr(run.failed_cmds[i].entity_id)]
             head == "Completed some actions, but had trouble with: "
                         \o Join(SubSeq(names, 1, Min(2, Len(names))), ", ")
         IN  IF Len(names) > 2
             THEN head \o " and " \o IntStr(Len(names) - 2) \o " more"
             ELSE head

\* lines 331-373: the affirmative branch, given the run of the loop
affirmative_branch(user_text, pending, commands_list, device_id, run, io_ok) ==
    IF run.raised
    THEN [pending_dict |-> pending, branch |-> "yes", execs |-> run.execs,
          raised |-> TRUE, response |-> NoneValue, success |-> FALSE,
          logged |-> << >>]
    ELSE [pending_dict |-> Pop(pending, device_id), branch |-> "yes",
          execs |-> run.execs, raised |-> FALSE,
          response |-> confirmation_response(commands_list, run),
          success |-> run.success_flag,
          logged |-> log_command(user_text, device_id,
                                 confirmation_response(commands_list, run),
                                 commands_list,
                                 IF run.success_flag THEN "true" ELSE "false",
                                 "executed", io_ok)]

\* negative_branch that acknowledges without discarding the session
negative_branch_keeps(user_text, pending, commands_list, device_id, io_ok) ==
    [pending_dict |-> pending, branch |-> "no", execs |-> << >>,
     raised |-> FALSE, response |-> "Request canceled.", success |-> TRUE,
     logged |-> log_command(user_text, device_id, "Request canceled.",
                            commands_list, "null", "canceled", io_ok)]

\* lines 375-391: the negative branch
negative_branch(user_text, pending, commands_list, device_id, io_ok) ==
    [pending_dict |-> Pop(pending, device_id), branch |-> "no", execs |-> << >>,
     raised |-> FALSE, response |-> "Request canceled.", success |-> TRUE,
     logged |-> log_command(user_text, device_id, "Request canceled.",
                            commands_list, "null", "canceled", io_ok)]

\* reprompt_branch that discards the session
reprompt_branch_clears(pending, device_id) ==
    [pending_dict |-> Pop(pending, device_id), branch |-> "other", execs |-> << >>,
     raised |-> FALSE, response |-> "Please say yes or no.", success |-> FALSE,
     logged |-> << >>]

\* lines 392-396: any other reply
reprompt_branch(pending, device_id) ==
    [pending_dict |-> pending, branch |-> "other", execs |-> << >>,
     raised |-> FALSE, response |-> "Please say yes or no.", success |-> FALSE,
     logged |-> << >>]

\* lines 325-331: user_text.strip().lower()
lowered_text(user_text) == Lower(Strip(user_text))

handle_confirmation_phase(user_text, pending, session, device_id, outcomes, io_ok) ==
    LET lowered == lowered_text(user_text)
        commands_list == IF "commands_list" \in DOMAIN session
                         THEN session.commands_list ELSE << >>
    IN  IF lowered \in AffirmativeWords
        THEN affirmative_branch(user_text, pending, commands_list, device_id,
                 execute_commands(commands_list, outcomes, 1,
                     [execs |-> << >>, success_flag |-> TRUE,
                      failed_cmds |-> << >>, raised |-> FALSE]),
                 io_ok)
        ELSE IF lowered \in NegativeWords
        THEN negative_branch(user_text, pending, commands_list, device_id, io_ok)
        ELSE reprompt_branch(pending, device_id)

----------------------------------------------------------------------------
(* gpt_commands.classify_intent *)

Intents == {"control", "question", "weather", "test", "rebuild_database"}

\* classify_intent that answers 'control' when the provider call raises
classify_intent_default_control(user_text, has_key, reply) ==
    IF has_key
    THEN IF reply.raised THEN "control"
         ELSE LET classification == Lower(Strip(reply.content))
              IN  IF classification \notin Intents THEN "test" ELSE classification
    ELSE LET text == Lower(user_text)
         IN  IF Contains(text, "weather") \/ Contains(text, "temperature")
             THEN "weather"
             ELSE IF Contains(text, "?") \/ Contains(text, "what")
             THEN "question"
             ELSE "control"

\* reply: [raised, content] of the provider call
classify_intent(user_text, has_key, reply) ==
    IF has_key
    THEN IF reply.raised THEN "test"
         ELSE LET classification == Lower(Strip(reply.content))
              IN  IF classification \notin Intents THEN "test" ELSE classification
    ELSE LET text == Lower(user_text)
         IN  IF Contains(text, "weather") \/ Contains(text, "temperature")
             THEN "weather"
             ELSE IF Contains(text, "?") \/ Contains(text, "what")
             THEN "question"
             ELSE "control"

\* gpt_commands.ask_gpt_if_user_wants_music
ask_gpt_if_user_wants_music(has_key, reply) ==
    IF has_key
    THEN IF reply.raised THEN "false"
         ELSE LET classification == Lower(Strip(reply.content))
              IN  IF classification \in {"true", "false"} THEN classification ELSE "false"
    ELSE "false"

\* gpt_commands.ask_gpt_for_rest_command: the JSON text handed back
ask_gpt_for_rest_command(has_key, reply) ==
    IF ~has_key THEN "[]"
    ELSE IF reply.raised THEN "[]"
    ELSE Strip(reply.content)

\* gpt_commands.generate_user_friendly_confirmation
generate_user_friendly_confirmation(commands_list, has_key, reply) ==
    IF ~has_key
    THEN "I found " \o IntStr(Len(commands_list)) \o " devices to control. Shall I proceed?"
    ELSE IF \/ reply.raised
            \/ \E i \in 1..Len(commands_list) :
                  ~IsDict(commands_list[i]) \/ data_get_raises(commands_list[i])
    THEN "Control " \o IntStr(Len(commands_list)) \o " devices? Proceed?"
    ELSE Strip(reply.content)

----------------------------------------------------------------------------
(* agent_logic.process_conversation_input *)

\* a provider reply
Reply(content) == [raised |-> FALSE, content |-> content]
ReplyRaised == [raised |-> TRUE, content |-> ""]

NoMatchMarker == "No devices matched. If the user wants to control a device, guess from context."
SpotifyUri == "spotify:playlist:6Jk1rXWdpLQaMiWaM9Tjor"

\* doc["page_content"][:1000]
Snippet(content) == SubSeq(content, 1, Min(1000, Len(content)))

\* the combined context without the line for no document
combined_context_no_marker(spotify_uri, final_docs) ==
    LET music == IF spotify_uri # NoneValue
                 THEN <<"The user wants music, please play on media player using spotify URI => "
                            \o spotify_uri>>
                 ELSE << >>
        devices == [i \in 1..Len(final_docs) |-> Snippet(final_docs[i])]
    IN  Join(music \o devices, "\n\n")

\* lines 111-122: the combined context
combined_context(spotify_uri, final_docs) ==
    LET music == IF spotify_uri # NoneValue
                 THEN <<"The user wants music, please play on media player using spotify URI => "
                            \o spotify_uri>>
                 ELSE << >>
        devices == IF Len(final_docs) = 0
                   THEN <<NoMatchMarker>>
                   ELSE [i \in 1..Len(final_docs) |-> Snippet(final_docs[i])]
    IN  Join(music \o devices, "\n\n")

\* has_open_session comparing against a misspelt status
has_open_session_misspelt(pending, device_id) ==
    /\ device_id \in DOMAIN pending
    /\ "status" \in DOMAIN pending[device_id]
    /\ pending[device_id].status = "awaiting confirmation"

\* line 82: pending and pending.get("status") == "awaiting_confirmation"
has_open_session(pending, device_id) ==
    /\ device_id \in DOMAIN pending
    /\ "status" \in DOMAIN pending[device_id]
    /\ pending[device_id].status = "awaiting_confirmation"

\* store_pending as the superseded draft had it (lines 178-188): the commands
\* are executed at once and their success is returned
store_pending_executing(pending, device_id, commands_list, t, friendly_confirmation, user_text, calls, context, env) ==
    LET run == execute_commands(commands_list, env.outcomes, 1,
                   [execs |-> << >>, success_flag |-> TRUE,
                    failed_cmds |-> << >>, raised |-> FALSE])
    IN  [pending_dict |-> Put(pending, device_id,
                              [commands_list |-> commands_list,
                               status |-> "awaiting_confirmation",
                               timestamp |-> t,
                               entity_id |-> device_id]),
         calls |-> calls \cup {"generate_user_friendly_confirmation"},
         execs |-> run.execs,
         raised |-> run.raised,
         response |-> friendly_confirmation,
         success |-> run.success_flag,
         branch |-> "control_pending",
         logged |-> << >>,
         context |-> context]

\* lines 145-175: store the pending commands and return the confirmation
\* prompt; nothing is executed here
store_pending(pending, device_id, commands_list, t, friendly_confirmation, user_text, calls, context, env) ==
    [pending_dict |-> Put(pending, device_id,
                          [commands_list |-> commands_list,
                           status |-> "awaiting_confirmation",
                           timestamp |-> t,
                           entity_id |-> device_id]),
     calls |-> calls \cup {"generate_user_friendly_confirmation"},
     execs |-> << >>,
     raised |-> FALSE,
     response |-> friendly_confirmation,
     success |-> FALSE,
     branch |-> "control_pending",
     logged |-> log_command(user_text, device_id, friendly_confirmation, commands_list,
                            "null", "awaiting_confirmation", env.io_ok),
     context |-> context]

\* commands_from_json that keeps only the first command of a list
commands_from_json_first_only(commands_json_str) ==
    LET parsed == json_loads(commands_json_str)
    IN  IF ~parsed.ok THEN [ok |-> FALSE, commands_list |-> << >>]
        ELSE IF IsDict(parsed.value)
        THEN [ok |-> TRUE, commands_list |-> <<parsed.value>>]
        ELSE IF IsList(parsed.value)
        THEN [ok |-> TRUE, commands_list |-> SubSeq(parsed.value.l, 1, Min(1, Len(parsed.value.l)))]
        ELSE [ok |-> FALSE, commands_list |-> << >>]

\* commands_from_json that wraps whatever is not a list as a single command
commands_from_json_wraps_scalars(commands_json_str) ==
    LET parsed == json_loads(commands_json_str)
    IN  IF ~parsed.ok THEN [ok |-> FALSE, commands_list |-> << >>]
        ELSE IF IsList(parsed.value)
        THEN [ok |-> TRUE, commands_list |-> parsed.value.l]
        ELSE [ok |-> TRUE, commands_list |-> <<parsed.value>>]

\* lines 130-138 and 190-192: json.loads of the synthesizer's text, then an
\* object becomes a one-element list and a list is taken as it is; ok is
\* FALSE when json.loads raises or the value is neither
commands_from_json(commands_json_str) ==
    LET parsed == json_loads(commands_json_str)
    IN  IF ~parsed.ok THEN [ok |-> FALSE, commands_list |-> << >>]
        ELSE IF IsDict(parsed.value)
        THEN [ok |-> TRUE, commands_list |-> <<parsed.value>>]
        ELSE IF IsList(parsed.value)
        THEN [ok |-> TRUE, commands_list |-> parsed.value.l]
        ELSE [ok |-> FALSE, commands_list |-> << >>]

\* lines 89-192: the 'control' branch.  pending is the dict after the sweep.
\* env holds what the collaborators answer during this request.
control_branch(user_text, device_id, pending, t, has_key, env) ==
    LET music_check == ask_gpt_if_user_wants_music(has_key, env.music_reply)
        wants_music == music_check = "true"
        spotify_uri == IF wants_music /\ env.spotify = "uri" THEN SpotifyUri ELSE NoneValue
        calls_a == {"classify_intent", "ask_gpt_for_refined_query", "ask_gpt_if_user_wants_music"}
                       \cup (IF wants_music
                             THEN {"ask_gpt_for_spotify_query", "get_spotify_access_token"}
                             ELSE {})
        calls_b == calls_a \cup (IF wants_music THEN {"search_spotify"} ELSE {})
                       \cup {"load_vector_index", "query_vector_index",
                             "rerank_and_filter_docs", "ask_gpt_for_rest_command"}
        context == combined_context(spotify_uri, env.final_docs)
        commands_json_str == ask_gpt_for_rest_command(has_key, env.synth_reply)
        parsed == commands_from_json(commands_json_str)
    IN  IF wants_music /\ env.spotify = "raise"
        THEN [pending_dict |-> pending, calls |-> calls_a, execs |-> << >>,
              raised |-> TRUE, response |-> NoneValue, success |-> FALSE,
              branch |-> "control_raise", logged |-> << >>, context |-> "",
              synth |-> NoneValue]
        ELSE IF ~parsed.ok
        THEN [pending_dict |-> pending, calls |-> calls_b, execs |-> << >>,
              raised |-> FALSE, response |-> NoneValue, success |-> FALSE,
              branch |-> "control_none", logged |-> << >>, context |-> context,
              synth |-> commands_json_str]
        ELSE LET commands_list == parsed.commands_list
                 friendly_confirmation ==
                     generate_user_friendly_confirmation(commands_list, has_key,
                                                         env.confirm_reply)
             IN  [synth |-> commands_json_str] @@
                 store_pending(pending, device_id, commands_list, t, friendly_confirmation,
                               user_text, calls_b, context, env)

\* a branch that returns at once, leaving the session map as it is
fixed_result(pending, response, success, branch, calls) ==
    [pending_dict |-> pending, calls |-> calls, execs |-> << >>,
     raised |-> FALSE, response |-> response, success |-> success,
     branch |-> branch, logged |-> << >>, context |-> "", synth |-> NoneValue]

\* intent_branch without the weather and question branches
intent_branch_falls_through(intent_type, pending, env) ==
    CASE intent_type = "rebuild_database" ->
             IF env.rebuild_ok
             THEN fixed_result(pending, "Rebuilding database in the background...", TRUE,
                               "rebuild_database", {"classify_intent", "rebuild_database"})
             ELSE [fixed_result(pending, NoneValue, FALSE, "rebuild_database",
                                {"classify_intent", "rebuild_database"})
                   EXCEPT !.raised = TRUE]
      [] intent_type = "test" ->
             fixed_result(pending, "Test done", TRUE, "test", {"classify_intent"})
      [] OTHER ->
             fixed_result(pending, NoneValue, FALSE, "unknown", {"classify_intent"})

\* lines 194-218: the branches of the intents other than 'control'.
\* pending is the dict after the sweep.
intent_branch(intent_type, pending, env) ==
    CASE intent_type = "weather" ->
             fixed_result(pending, "Weather not implemented", TRUE, "weather",
                          {"classify_intent"})
      [] intent_type = "question" ->
             fixed_result(pending, "Question not implemented", TRUE, "question",
                          {"classify_intent"})
      [] intent_type = "rebuild_database" ->
             IF env.rebuild_ok
             THEN fixed_result(pending, "Rebuilding database in the background...", TRUE,
                               "rebuild_database", {"classify_intent", "rebuild_database"})
             ELSE [fixed_result(pending, NoneValue, FALSE, "rebuild_database",
                                {"classify_intent", "rebuild_database"})
                   EXCEPT !.raised = TRUE]
      [] intent_type = "test" ->
             fixed_result(pending, "Test done", TRUE, "test", {"classify_intent"})
      [] OTHER ->
             fixed_result(pending, NoneValue, FALSE, "unknown", {"classify_intent"})

\* lines 74-218.  pending is the dict before the sweep, t the clock.
process_conversation_input(user_text, device_id, pending, t, has_key, env) ==
    LET sweep == check_and_cleanup_sessions(pending, t)
        swept == sweep.pending_dict
        r == IF has_open_session(swept, device_id)
             THEN LET h == handle_confirmation_phase(user_text, swept, swept[device_id],
                                                     device_id, env.outcomes, env.io_ok)
                  IN  [pending_dict |-> h.pending_dict,
                       calls |-> {"handle_confirmation_phase"},
                       execs |-> h.execs, raised |-> h.raised, response |-> h.response,
                       success |-> h.success, branch |-> h.branch, logged |-> h.logged,
                       context |-> "", synth |-> NoneValue, intent |-> NoneValue]
             ELSE LET intent_type == classify_intent(user_text, has_key, env.classify_reply)
                  IN  [intent |-> intent_type] @@
                      (IF intent_type = "control"
                       THEN control_branch(user_text, device_id, swept, t, has_key, env)
                       ELSE intent_branch(intent_type, swept, env))
    IN  [swept |-> swept, cleaned |-> sweep.count] @@ r

----------------------------------------------------------------------------
(* What the user says and what the collaborators answer *)

UserTexts == {"yes", " Go Ahead ", "NAH", "maybe",
              "turn on the lights", "what's the weather"}

\* utterances that start a request when no confirmation is open
FreshTexts == {"yes", "turn on the lights", "what's the weather"}

ClassifyReplies == {Reply("control"), Reply(" Weather\n"), Reply("question"),
                    Reply("rebuild_database"), Reply("test"),
                    Reply("I think this is a control request"), ReplyRaised}

SynthReplies == {Reply(text) : text \in SynthTexts} \cup {ReplyRaised}

\* the music check with what the music provider then does
MusicAnswers == {[reply |-> Reply("false"), spotify |-> "none"],
                 [reply |-> Reply("True"), spotify |-> "uri"],
                 [reply |-> Reply("true"), spotify |-> "none"],
                 [reply |-> Reply("true"), spotify |-> "raise"]}

\* the rest of what a control request meets: the page_content of the
\* documents left after retrieval and rerank, the provider's confirmation
\* message (or its failure), and whether the history file can be written
LivingRoomDoc == "Entity: light.living_room\nName: Living Room Light\n"
ConfirmText == "Turn on the living room lights. Proceed?"
ControlSettings ==
    {[final_docs |-> << >>, confirm_reply |-> Reply(ConfirmText), io_ok |-> TRUE],
     [final_docs |-> <<LivingRoomDoc>>, confirm_reply |-> ReplyRaised, io_ok |-> TRUE],
     [final_docs |-> <<LivingRoomDoc>>, confirm_reply |-> Reply(ConfirmText), io_ok |-> FALSE]}

AllOk == [i \in 1..MaxCmds |-> TRUE]

\* the answers that do not matter on the path taken
DefaultEnv ==
    [classify_reply |-> ReplyRaised,
     music_reply |-> Reply("false"),
     spotify |-> "none",
     final_docs |-> << >>,
     synth_reply |-> ReplyRaised,
     confirm_reply |-> ReplyRaised,
     outcomes |-> AllOk,
     io_ok |-> TRUE,
     rebuild_ok |-> TRUE]

----------------------------------------------------------------------------
(* vector_index: the embedding store.  A document is                        *)
(* {"page_content": ..., "metadata": {"entity_id": ...}}; the store is the  *)
(* two files embeddings.npy and mapping.json in data/vector_index.          *)

\* str(n) for n < 100
NumStr(n) == IF n < 10 THEN IntStr(n) ELSE IntStr(n \div 10) \o IntStr(n % 10)

\* agent_logic.py lines 242-245: the documents of the first n entities of
\* the installation, light.d1 (Lamp 1), light.d2 (Lamp 2), ...
Docs(n) ==
    [i \in 1..n |->
        [page_content |-> "Entity: light.d" \o NumStr(i) \o "\nName: Lamp " \o NumStr(i)
                              \o "\nAttributes: {}\n",
         metadata |-> [entity_id |-> "light.d" \o NumStr(i)]]]

\* l[::-1]
Reverse(l) == [i \in 1..Len(l) |-> l[Len(l) + 1 - i]]

\* the embedding the provider answers for a text: two components, written
\* as integers (small integers are float32 values, so the conversion of
\* line 81 leaves them as they are)
Embedding(text) == <<Len(text) % 5, 1>>

\* json.dump of a document list (line 87)
json_dump(docs) ==
    JList([i \in 1..Len(docs) |->
              JObj([page_content |-> JStr(docs[i].page_content),
                    metadata |-> JObj([k \in DOMAIN docs[i].metadata |->
                                          JStr(docs[i].metadata[k])])])])

\* json.load of what json_dump wrote (lines 381-382)
json_load(value) ==
    [i \in 1..Len(value.l) |->
        [page_content |-> value.l[i].o.page_content.s,
         metadata |-> [k \in DOMAIN value.l[i].o.metadata.o |->
                          value.l[i].o.metadata.o[k].s]]]

\* a file of the store that was never written, one that np.save or json.dump
\* wrote, and one that is open for writing (truncated, its content not yet
\* there), which a reader cannot parse
Absent == [state |-> "absent", content |-> NoneValue]
Written(content) == [state |-> "ok", content |-> content]
Truncated == [state |-> "partial", content |-> NoneValue]

\* os.path.exists
exists(file) == file.state # "absent"

\* (None, None, None): found is FALSE and the other fields stand for None
NotFound == [found |-> FALSE, matrix |-> << >>, docs |-> << >>, dim |-> 0]
\* (embedding_matrix, docs, embedding_matrix.shape[1])
Index(embedding_matrix, docs) ==
    [found |-> TRUE, matrix |-> embedding_matrix, docs |-> docs,
     dim |-> Len(embedding_matrix[1])]

\* lines 58-75 with every batch call answering except the fail_at-th, whose
\* failure is swallowed and the loop goes on
RECURSIVE embed_batches_skips_failed(_, _, _, _, _)
embed_batches_skips_failed(texts, start_idx, call, fail_at, embeddings) ==
    IF start_idx >= Len(texts)
    THEN [ok |-> TRUE, embeddings |-> embeddings]
    ELSE LET batch == SubSeq(texts, start_idx + 1, Min(start_idx + batch_size, Len(texts)))
         IN  embed_batches_skips_failed(texts, start_idx + batch_size, call + 1, fail_at,
                 IF call = fail_at THEN embeddings
                 ELSE embeddings \o [i \in 1..Len(batch) |-> Embedding(batch[i])])

\* lines 58-75: the embedding loop from start_idx on; the fail_at-th batch
\* call raises (fail_at = 0: none does).  [ok, embeddings]
RECURSIVE embed_batches(_, _, _, _, _)
embed_batches(texts, start_idx, call, fail_at, embeddings) ==
    IF start_idx >= Len(texts)
    THEN [ok |-> TRUE, embeddings |-> embeddings]
    ELSE IF call = fail_at
    THEN [ok |-> FALSE, embeddings |-> embeddings]
    ELSE LET batch == SubSeq(texts, start_idx + 1, Min(start_idx + batch_size, Len(texts)))
         IN  embed_batches(texts, start_idx + batch_size, call + 1, fail_at,
                           embeddings \o [i \in 1..Len(batch) |-> Embedding(batch[i])])

\* lines 53-79: [d["page_content"] for d in docs], embedded; ok is FALSE
\* when build_vector_index returns (None, None, None) before saving
embed_docs(docs, fail_at) ==
    LET texts == [i \in 1..Len(docs) |-> docs[i].page_content]
        r == embed_batches(texts, 0, 1, fail_at, << >>)
    IN  IF ~r.ok \/ r.embeddings = << >>
        THEN [ok |-> FALSE, embedding_matrix |-> << >>]
        ELSE [ok |-> TRUE, embedding_matrix |-> r.embeddings]

\* load_vector_index lines 346-389 without auto_rebuild, as agent_logic.py
\* line 106 and vector_index.py line 410 call it
load_vector_index(ef, mf) ==
    IF ~exists(ef) \/ ~exists(mf) THEN NotFound
    ELSE IF ef.state # "ok" \/ mf.state # "ok" THEN NotFound
    ELSE Index(ef.content, json_load(mf.content))

\* build_vector_index lines 28-90 run from its first line to its return:
\* [embeddings_file, mapping_file, result]
build_vector_index(ef, mf, docs, force_rebuild, fail_at) ==
    LET loaded == load_vector_index(ef, mf)
        e == embed_docs(docs, fail_at)
    IN  IF ~force_rebuild /\ exists(ef) /\ exists(mf) /\ loaded.found
        THEN [embeddings_file |-> ef, mapping_file |-> mf, result |-> loaded]
        ELSE IF ~e.ok
        THEN [embeddings_file |-> ef, mapping_file |-> mf, result |-> NotFound]
        ELSE [embeddings_file |-> Written(e.embedding_matrix),
              mapping_file |-> Written(json_dump(docs)),
              result |-> Index(e.embedding_matrix, docs)]

\* no call of build_vector_index or load_vector_index is running
IdleRebuild ==
    [pc |-> "idle", docs |-> << >>, fail_at |-> 0, embedding_matrix |-> << >>,
     before |-> <<Absent, Absent>>, result |-> NoneValue]
IdleLoader == [pc |-> "idle", embedding_matrix |-> NoneValue, clean |-> FALSE]

\* the store of a fresh installation, nothing running on it
NoIndexActivity ==
    /\ embeddings_file = Absent
    /\ mapping_file = Absent
    /\ rebuild = IdleRebuild
    /\ loader = IdleLoader

----------------------------------------------------------------------------
(* vector_index.query_vector_index *)

\* np.dot of two vectors
RECURSIVE Dot(_, _)
Dot(a, b) == IF a = << >> THEN 0 ELSE Head(a) * Head(b) + Dot(Tail(a), Tail(b))

\* lines 448-457: similarities[a] < similarities[b] for the rows a and b,
\* cosine similarity to the query vector q compared exactly (the squared
\* norm of a row, a zero norm replaced as in lines 452-453, and the signed
\* square of the dot product)
LessSimilar(a, b, q) ==
    LET NormSq(x) == IF Dot(x, x) = 0 THEN 1 ELSE Dot(x, x)
        SignedSquare(x) == IF x < 0 THEN -(x * x) ELSE x * x
    IN  SignedSquare(Dot(a, q)) * NormSq(b) < SignedSquare(Dot(b, q)) * NormSq(a)

\* similarities.argsort(): the row numbers in ascending similarity.  The
\* default sort of numpy is not stable, so rows of equal similarity come in
\* any order: the set of the orders it can return
argsort(embedding_matrix, q) ==
    {p \in Permutations(1..Len(embedding_matrix)) :
        \A i, j \in 1..Len(embedding_matrix) :
            i < j => ~LessSimilar(embedding_matrix[p[j]], embedding_matrix[p[i]], q)}

\* line 460: similarities.argsort()[-k:][::-1], l[-k:] being the whole
\* list for k = 0 and for k >= len(l)
top_k_idx(embedding_matrix, q, k) ==
    LET last_k(l) == IF k = 0 \/ k >= Len(l) THEN l ELSE SubSeq(l, Len(l) - k + 1, Len(l))
    IN  {Reverse(last_k(p)) : p \in argsort(embedding_matrix, q)}

\* the document that asks for a rebuild (lines 417-418, 421-422, 429-430)
sentinel(page_content) ==
    [page_content |-> page_content, metadata |-> [entity_id |-> "assistant.rebuild_request"]]
PleaseRebuild == "Please say 'rebuild database' to refresh my device list."

\* agent_logic.sync_do_rebuild over the store (ef, mf); ha is what the
\* installation answers: whether get_ha_states works, how many entities are
\* left after filtering, and the batch call that raises
sync_do_rebuild(ef, mf, ha) ==
    IF ~ha.states_ok
    THEN [embeddings_file |-> ef, mapping_file |-> mf, result |-> "error"]
    ELSE LET b == build_vector_index(ef, mf, Docs(ha.entities), TRUE, ha.fail_at)
         IN  [embeddings_file |-> b.embeddings_file, mapping_file |-> b.mapping_file,
              result |-> "done"]

\* lines 432-470: the results for each order argsort can give; query is the
\* provider's embedding of the query text, or its failure
search(index_data, query, k) ==
    IF query.raised THEN {[raised |-> FALSE, results |-> << >>]}
    ELSE {IF \E i \in 1..Len(idx) : idx[i] > Len(index_data.docs)
          THEN [raised |-> TRUE, results |-> << >>]
          ELSE [raised |-> FALSE,
                results |-> [i \in 1..Len(idx) |-> index_data.docs[idx[i]]]] :
              idx \in top_k_idx(index_data.matrix, query.vector, k)}

\* the index is missing and the query returns nothing at all
give_up_empty(e, m, text, rebuilds, loads) ==
    {[embeddings_file |-> e, mapping_file |-> m, results |-> << >>,
      raised |-> FALSE, rebuilds |-> rebuilds, loads |-> loads, found |-> FALSE]}

\* lines 414-430: the index is missing and stays so, the query returns the
\* one document that asks for a rebuild
give_up(e, m, text, rebuilds, loads) ==
    {[embeddings_file |-> e, mapping_file |-> m, results |-> <<sentinel(text)>>,
      raised |-> FALSE, rebuilds |-> rebuilds, loads |-> loads, found |-> FALSE]}

\* query_vector_index(index_data, query_text, k, hass=...) over the store
\* (ef, mf): the set of its outcomes
\* [embeddings_file, mapping_file, results, raised, rebuilds, loads, found]
query_vector_index(index_data, query, k, hass, ef, mf, ha) ==
    LET rb == sync_do_rebuild(ef, mf, ha)
        rebuilt_index == load_vector_index(rb.embeddings_file, rb.mapping_file)
    IN  IF index_data.found
        THEN {[embeddings_file |-> ef, mapping_file |-> mf, results |-> r.results,
               raised |-> r.raised, rebuilds |-> 0, loads |-> 0, found |-> TRUE] :
                  r \in search(index_data, query, k)}
        ELSE IF ~hass THEN give_up(ef, mf, PleaseRebuild, 0, 0)
        ELSE IF rb.result # "done"
        THEN give_up(rb.embeddings_file, rb.mapping_file,
                     "I'm having trouble accessing my device database. Please say 'rebuild database'.",
                     1, 0)
        ELSE IF ~rebuilt_index.found
        THEN give_up(rb.embeddings_file, rb.mapping_file, PleaseRebuild, 1, 1)
        ELSE {[embeddings_file |-> rb.embeddings_file, mapping_file |-> rb.mapping_file,
               results |-> r.results, raised |-> r.raised, rebuilds |-> 1, loads |-> 1,
               found |-> TRUE] :
                  r \in search(rebuilt_index, query, k)}

----------------------------------------------------------------------------
(* entity_refinement.rerank_and_filter_docs *)

location_words == <<"office", "living room", "bedroom", "nursery", "kitchen">>
preferred_domains == <<"light", "climate", "fan", "media_player", "switch", "cover">>

\* s.split(sep)[0] for a one-character separator
SplitFirst(s, sep) ==
    IF \E i \in 1..Len(s) : CharAt(s, i) = sep
    THEN SubSeq(s, 1, (CHOOSE i \in 1..Len(s) :
                          CharAt(s, i) = sep /\ \A j \in 1..(i - 1) : CharAt(s, j) # sep) - 1)
    ELSE s

\* lines 179-183: the first location word found in the lower-cased text
location_hint(text_lower) ==
    IF \E i \in 1..Len(location_words) : Contains(text_lower, location_words[i])
    THEN location_words[CHOOSE i \in 1..Len(location_words) :
                           /\ Contains(text_lower, location_words[i])
                           /\ \A j \in 1..(i - 1) : ~Contains(text_lower, location_words[j])]
    ELSE NoneValue

\* lines 228-243
extract_domain(doc) ==
    LET meta == IF "metadata" \in DOMAIN doc THEN doc.metadata ELSE << >>
        ent_id == IF "entity_id" \in DOMAIN meta THEN meta.entity_id ELSE ""
    IN  IF "domain" \in DOMAIN meta THEN meta.domain
        ELSE IF Contains(ent_id, ".") THEN SplitFirst(ent_id, ".")
        ELSE "unknown"

\* the score without the location bonus
final_score_no_location(hint, docs, i) ==
    LET base_score == Len(docs) - (i - 1)
        domain == extract_domain(docs[i])
        idx == (CHOOSE n \in 1..Len(preferred_domains) : preferred_domains[n] = domain) - 1
        domain_bonus == IF \E n \in 1..Len(preferred_domains) : preferred_domains[n] = domain
                        THEN (Len(preferred_domains) - idx) * 5
                        ELSE 0
        sensor_penalty == IF domain \in {"sensor", "binary_sensor", "automation"}
                          THEN -5 ELSE 0
    IN  base_score + domain_bonus + sensor_penalty

\* lines 190-210: the score of docs[i] (i counted from 1) under the
\* location hint of the text
final_score(hint, docs, i) ==
    LET base_score == Len(docs) - (i - 1)
        domain == extract_domain(docs[i])
        \* preferred_domains.index(domain)
        idx == (CHOOSE n \in 1..Len(preferred_domains) : preferred_domains[n] = domain) - 1
        domain_bonus == IF \E n \in 1..Len(preferred_domains) : preferred_domains[n] = domain
                        THEN (Len(preferred_domains) - idx) * 5
                        ELSE 0
        location_bonus == IF hint # NoneValue /\ Contains(Lower(docs[i].page_content), hint)
                          THEN 10 ELSE 0
        sensor_penalty == IF domain \in {"sensor", "binary_sensor", "automation"}
                          THEN -5 ELSE 0
    IN  base_score + domain_bonus + location_bonus + sensor_penalty

\* lines 187-211: the scores of docs[i..], in list order
RECURSIVE scored(_, _, _)
scored(hint, docs, i) ==
    IF i > Len(docs) THEN << >>
    ELSE <<final_score(hint, docs, i)>> \o scored(hint, docs, i + 1)

\* a sort whose order of equal scores depends on what ran before
RECURSIVE sorted_desc_remembers(_, _)
sorted_desc_remembers(scores, r) ==
    IF r > Len(scores) THEN << >>
    ELSE <<CHOOSE i \in 1..Len(scores) :
               r = 1 + Cardinality({j \in 1..Len(scores) :
                                       \/ scores[j] > scores[i]
                                       \/ /\ scores[j] = scores[i]
                                          /\ IF last.op = "idle" THEN j < i ELSE j > i})>>
             \o sorted_desc_remembers(scores, r + 1)

\* line 213: list.sort(key=score, reverse=True) is stable: the positions in
\* descending score, equal scores in their earlier order
RECURSIVE sorted_desc(_, _)
sorted_desc(scores, r) ==
    IF r > Len(scores) THEN << >>
    ELSE <<CHOOSE i \in 1..Len(scores) :
               r = 1 + Cardinality({j \in 1..Len(scores) :
                                       \/ scores[j] > scores[i]
                                       \/ (scores[j] = scores[i] /\ j < i)})>>
             \o sorted_desc(scores, r + 1)

\* lines 175-217: the documents in descending score, cut to filter_qty
rerank_and_filter_docs(user_text, docs, filter_qty) ==
    LET best_docs_top(order) == [r \in 1..Min(filter_qty, Len(docs)) |-> docs[order[r]]]
    IN  best_docs_top(sorted_desc(scored(location_hint(Lower(user_text)), docs, 1), 1))

\* one call of rerank_and_filter_docs: what it returns and the list docs
\* after it (lines 187-215 build and sort the new list scored, docs is read)
rerank_call(user_text, docs, filter_qty) ==
    [results |-> rerank_and_filter_docs(user_text, docs, filter_qty), docs |-> docs]

----------------------------------------------------------------------------
(* entity_refinement.filter_irrelevant_entities *)

\* lines 79-100
EXCLUDED_DOMAINS ==
    {"number", "switch", "binary_sensor", "automation", "assist_satellite", "button",
     "camera", "conversation", "event", "input_select", "script", "select", "sensor",
     "stt", "sun", "tts", "time", "update", "wake_word", "zone"}

\* only the LED rule of lines 110-112
is_irrelevant_entity_led_only(s) ==
    LET domain == IF "domain" \in DOMAIN s THEN s.domain ELSE ""
        name == Lower(IF "name" \in DOMAIN s THEN s.name ELSE "")
    IN  domain = "number" /\ Contains(name, "led")

\* lines 102-114
is_irrelevant_entity(s) ==
    LET domain == IF "domain" \in DOMAIN s THEN s.domain ELSE ""
        name == Lower(IF "name" \in DOMAIN s THEN s.name ELSE "")
    IN  \/ domain \in EXCLUDED_DOMAINS
        \/ domain = "number" /\ Contains(name, "led")

\* a filter that also drops the first entity it would keep
RECURSIVE filter_irrelevant_entities_drops_one(_)
filter_irrelevant_entities_drops_one(all_states) ==
    IF all_states = << >> THEN << >>
    ELSE IF is_irrelevant_entity(Head(all_states))
    THEN filter_irrelevant_entities_drops_one(Tail(all_states))
    ELSE Tail(all_states)

\* lines 116-122: [st for st in all_states if not is_irrelevant_entity(st)]
RECURSIVE filter_irrelevant_entities(_)
filter_irrelevant_entities(all_states) ==
    IF all_states = << >> THEN << >>
    ELSE (IF is_irrelevant_entity(Head(all_states)) THEN << >> ELSE <<Head(all_states)>>)
             \o filter_irrelevant_entities(Tail(all_states))

\* the jobs of the executor (conversation.py line 153)
JobIds == {1, 2}

\* a job slot with no call running in it
IdleJob ==
    [pc |-> "idle", device_id |-> "", user_text |-> "", expired_sessions |-> {},
     commands_list |-> << >>, execs |-> << >>]
NoJobs == [j \in JobIds |-> IdleJob]

\* no history has been written yet
NoHistoryFile == [exists |-> FALSE, readable |-> TRUE, entries |-> << >>]
NoLogCalls == [entries |-> << >>, intact |-> TRUE]

\* the observation before any request
Idle ==
    [op |-> "idle", device_id |-> "", user_text |-> "", at |-> 0,
     pre |-> << >>, swept |-> << >>, cleaned |-> 0, calls |-> {}, execs |-> << >>,
     raised |-> FALSE, response |-> NoneValue, success |-> FALSE, branch |-> "",
     logged |-> << >>, context |-> "", intent |-> NoneValue, synth |-> NoneValue,
     history_ok |-> TRUE]

----------------------------------------------------------------------------
(* The state machine *)

Init ==
    /\ pending_dict = << >>
    /\ now = 0
    /\ api_key \in BOOLEAN
    /\ last = Idle
    /\ history_file = NoHistoryFile
    /\ log_calls = NoLogCalls
    /\ jobs = NoJobs
    /\ NoIndexActivity

\* one call of process_conversation_input(user_text, device_id, hass), run to
\* completion in the executor (conversation.py line 153)
Request(device_id, user_text, env) ==
    \E r \in {process_conversation_input(user_text, device_id, pending_dict, now,
                                         api_key, env)} :
        /\ pending_dict' = r.pending_dict
        /\ last' = [op |-> "request", device_id |-> device_id, user_text |-> user_text,
                    at |-> now, pre |-> pending_dict, swept |-> r.swept,
                    cleaned |-> r.cleaned, calls |-> r.calls, execs |-> r.execs,
                    raised |-> r.raised, response |-> r.response,
                    success |-> r.success, branch |-> r.branch, logged |-> r.logged,
                    context |-> r.context, intent |-> r.intent, synth |-> r.synth,
                    history_ok |-> env.io_ok]
        /\ UNCHANGED <<now, api_key, historyVars, executorVars, indexVars>>

SweptNow == check_and_cleanup_sessions(pending_dict, now).pending_dict

\* a request that finds an open confirmation for its key (line 83)
ConfirmRequest ==
    /\ last.op = "idle"
    /\ \E device_id \in Keys, user_text \in UserTexts, outcomes \in Outcomes, io_ok \in BOOLEAN :
        /\ has_open_session(SweptNow, device_id)
        /\ Request(device_id, user_text,
                   [DefaultEnv EXCEPT !.outcomes = outcomes, !.io_ok = io_ok])

\* a request classified as anything but 'control' (lines 194-218)
IntentRequest ==
    /\ last.op = "idle"
    /\ \E device_id \in Keys, user_text \in FreshTexts,
       classify_reply \in ClassifyReplies, rebuild_ok \in BOOLEAN :
        /\ ~has_open_session(SweptNow, device_id)
        /\ classify_intent(user_text, api_key, classify_reply) # "control"
        /\ Request(device_id, user_text,
                   [DefaultEnv EXCEPT !.classify_reply = classify_reply,
                                      !.rebuild_ok = rebuild_ok])

\* a request classified as 'control' (lines 89-192)
ControlRequest ==
    /\ last.op = "idle"
    /\ \E device_id \in Keys, user_text \in FreshTexts, synth_reply \in SynthReplies,
       music \in MusicAnswers, rest \in ControlSettings :
        /\ ~has_open_session(SweptNow, device_id)
        /\ classify_intent(user_text, api_key, Reply("control")) = "control"
        /\ Request(device_id, user_text,
                   [DefaultEnv EXCEPT !.classify_reply = Reply("control"),
                                      !.music_reply = music.reply,
                                      !.spotify = music.spotify,
                                      !.final_docs = rest.final_docs,
                                      !.synth_reply = synth_reply,
                                      !.confirm_reply = rest.confirm_reply,
                                      !.io_ok = rest.io_ok])

\* process_conversation_input has returned or raised: async_process builds
\* the speech response and the request is over (conversation.py lines 156-178)
Respond ==
    /\ last.op = "request"
    /\ last' = Idle
    /\ UNCHANGED <<pending_dict, now, api_key, historyVars, executorVars, indexVars>>

\* wall-clock time passes between requests
Tick ==
    /\ last.op = "idle"
    /\ \E d \in {Step, Step + 1} :
        /\ now + d <= MaxTime
        /\ now' = now + d
        /\ UNCHANGED <<pending_dict, api_key, last, historyVars, executorVars, indexVars>>

Next == ConfirmRequest \/ IntentRequest \/ ControlRequest \/ Respond \/ Tick

\* The entries a request hands to the history are observed in last.logged;
\* the file they are appended to is followed in HistorySpec below.
Spec == Init /\ [][Next]_vars

----------------------------------------------------------------------------
(* The same requests with a clock that runs until every session that was
   opened has passed the timeout, under the fairness of a system that keeps
   receiving utterances while time passes *)

\* the clock stops where a session opened at OpenUntil is past the timeout
LiveMaxTime == OpenUntil + SESSION_TIMEOUT + Step + 1

\* the synthesizer replies that open a session in LiveSpec: a list of two
\* commands, and a list whose first element is no object
LiveSynthReplies ==
    {Reply(e.text) : e \in {x \in SynthTable :
                               x.value \in {JList(<<cmd_light, cmd_media>>),
                                            JList(<<cmd_text, cmd_light>>)}}}

\* what the providers answer to a request of LiveSpec
LiveEnvs ==
    {[DefaultEnv EXCEPT !.classify_reply = classify_reply,
                        !.final_docs = <<LivingRoomDoc>>,
                        !.synth_reply = synth_reply,
                        !.confirm_reply = Reply(ConfirmText)] :
        classify_reply \in {Reply("control"), Reply("question")},
        synth_reply \in LiveSynthReplies}

\* classify_intent on the utterances and provider answers of LiveSpec
LiveIntentOf ==
    [user_text \in UserTexts |->
        [has_key \in BOOLEAN |->
            [reply \in {Reply("control"), Reply("question")} |->
                classify_intent(user_text, has_key, reply)]]]

\* async_process hands an utterance to the executor (conversation.py lines
\* 151-155); after OpenUntil only utterances that open no session arrive
LiveSubmit ==
    /\ last.op = "idle"
    /\ \E device_id \in Keys, user_text \in UserTexts, env \in LiveEnvs :
        /\ \/ now <= OpenUntil
           \/ has_open_session(SweptNow, device_id)
           \/ LiveIntentOf[user_text][api_key][env.classify_reply] # "control"
        /\ last' = [op |-> "submitted", device_id |-> device_id,
                    user_text |-> user_text, env |-> env]
    /\ UNCHANGED <<pending_dict, now, api_key, historyVars, executorVars, indexVars>>

\* the executor runs process_conversation_input on the submitted utterance;
\* the observation keeps the keys the call took out of the session map
LiveProcess ==
    /\ last.op = "submitted"
    /\ \E r \in {process_conversation_input(last.user_text, last.device_id, pending_dict,
                                            now, api_key, last.env)} :
        /\ pending_dict' = r.pending_dict
        /\ last' = [op |-> "request", device_id |-> last.device_id,
                    user_text |-> last.user_text,
                    evicted |-> (DOMAIN pending_dict) \ (DOMAIN r.swept),
                    removed |-> (DOMAIN pending_dict) \ (DOMAIN r.pending_dict),
                    opened |-> (DOMAIN r.pending_dict) \ (DOMAIN pending_dict),
                    raised |-> r.raised]
    /\ UNCHANGED <<now, api_key, historyVars, executorVars, indexVars>>

\* async_process returns (conversation.py lines 156-178)
LiveRespond ==
    /\ last.op = "request"
    /\ last' = Idle
    /\ UNCHANGED <<pending_dict, now, api_key, historyVars, executorVars, indexVars>>

LiveTick ==
    /\ last.op = "idle"
    /\ \E d \in {Step, Step + 1} :
        /\ now + d <= LiveMaxTime
        /\ now' = now + d
        /\ UNCHANGED <<pending_dict, api_key, last, historyVars, executorVars, indexVars>>

LiveNext == LiveSubmit \/ LiveProcess \/ LiveRespond \/ LiveTick

\* WF_vars(LiveProcess) with its ENABLED written out: LiveProcess is enabled
\* exactly while an utterance is submitted (process_conversation_input is
\* defined on every input) and each of its steps ends that
LiveProcessRuns == []<>(last.op # "submitted")

\* time keeps advancing whatever the requests do (LiveTick is disabled while
\* a call runs, hence strong fairness), utterances keep arriving, every
\* submitted call is run by the executor and returns
LiveSpec ==
    /\ Init
    /\ [][LiveNext]_vars
    /\ SF_vars(LiveTick)
    /\ WF_vars(LiveSubmit)
    /\ LiveProcessRuns
    /\ WF_vars(LiveRespond)

TypeOK ==
    /\ DOMAIN pending_dict \subseteq Keys
    /\ now \in 0..MaxTime
    /\ api_key \in BOOLEAN

----------------------------------------------------------------------------
(* The history file under a sequence of log_command calls *)

HistoryInit ==
    /\ pending_dict = << >>
    /\ now = 0
    /\ api_key = TRUE
    /\ last = Idle
    /\ history_file = NoHistoryFile
    /\ log_calls = NoLogCalls
    /\ jobs = NoJobs
    /\ NoIndexActivity

\* the arguments of the call made at time t: the requests of one session,
\* in turn
HistoryCallArgs(t) ==
    CASE t % 3 = 0 -> [user_text |-> "turn on the lights", response |-> ConfirmText,
                       commands_list |-> <<cmd_light, cmd_media>>,
                       success |-> "null", status |-> "awaiting_confirmation"]
      [] t % 3 = 1 -> [user_text |-> "yes", response |-> "Done.",
                       commands_list |-> <<cmd_light, cmd_media>>,
                       success |-> "true", status |-> "executed"]
      [] OTHER     -> [user_text |-> "NAH", response |-> "Request canceled.",
                       commands_list |-> << >>,
                       success |-> "null", status |-> "canceled"]

\* the entry log_command builds at time t (lines 31-61), with its timestamp
history_entry(t, io_ok) ==
    LET a == HistoryCallArgs(t)
        e == log_command(a.user_text, "device_1", a.response, a.commands_list,
                         a.success, a.status, io_ok)
    IN  IF e = << >> THEN << >> ELSE <<[timestamp |-> t] @@ e[1]>>

\* one call of log_command that finds the file absent or readable and
\* writes it back
LogCommand ==
    /\ Len(log_calls.entries) < MaxLogs
    /\ history_file.readable
    /\ \E e \in {history_entry(now, TRUE)} :
        /\ history_file' = append_history(history_file, e[1])
        /\ log_calls' = [log_calls EXCEPT !.entries = Append(@, e[1])]
    /\ now' = now + 1
    /\ UNCHANGED <<pending_dict, api_key, last, executorVars, indexVars>>

\* one call that finds the file unreadable (json.load raises, lines 66-72):
\* it starts over from an empty history
LogCommandUnreadable ==
    /\ Len(log_calls.entries) < MaxLogs
    /\ ~history_file.readable
    /\ \E e \in {history_entry(now, TRUE)} :
        /\ history_file' = append_history(history_file, e[1])
        /\ log_calls' = [entries |-> Append(log_calls.entries, e[1]), intact |-> FALSE]
    /\ now' = now + 1
    /\ UNCHANGED <<pending_dict, api_key, last, executorVars, indexVars>>

\* one call that cannot write the file (open raises, line 82): the exception
\* is swallowed at line 87 and the file stays as it was
LogCommandUnwritable ==
    /\ Len(log_calls.entries) < EarlyCalls
    /\ history_entry(now, FALSE) = << >>
    /\ log_calls' = [entries |-> Append(log_calls.entries,
                                        history_entry(now, TRUE)[1]),
                     intact |-> FALSE]
    /\ now' = now + 1
    /\ UNCHANGED <<pending_dict, api_key, last, history_file, executorVars, indexVars>>

\* the file is damaged between two calls
DamageHistoryFile ==
    /\ Len(log_calls.entries) \in 1..EarlyCalls
    /\ history_file.exists
    /\ history_file.readable
    /\ history_file' = [history_file EXCEPT !.readable = FALSE]
    /\ UNCHANGED <<pending_dict, now, api_key, last, log_calls, executorVars, indexVars>>

HistoryNext ==
    LogCommand \/ LogCommandUnreadable \/ LogCommandUnwritable \/ DamageHistoryFile

HistorySpec == HistoryInit /\ [][HistoryNext]_vars

----------------------------------------------------------------------------
(* An affirmative reply to a session of up to MaxRun commands *)

MessageCommands == {cmd_light, cmd_media, cmd_badservice}

\* the command lists a session can hold
RECURSIVE CommandLists(_)
CommandLists(n) ==
    IF n = 0 THEN {<< >>}
    ELSE CommandLists(n - 1) \cup
         {Append(l, c) : l \in {x \in CommandLists(n - 1) : Len(x) = n - 1},
                         c \in MessageCommands}

\* a session for device_1 is awaiting confirmation (lines 147-152)
MessageInit ==
    /\ pending_dict \in {[device_1 |-> [commands_list |-> l,
                                         status |-> "awaiting_confirmation",
                                         timestamp |-> 0,
                                         entity_id |-> "device_1"]] :
                             l \in CommandLists(MaxRun)}
    /\ now = 0
    /\ api_key = TRUE
    /\ last = Idle
    /\ history_file = NoHistoryFile
    /\ log_calls = NoLogCalls
    /\ jobs = NoJobs
    /\ NoIndexActivity

\* the user confirms; every hass.services.call returns or raises
AffirmativeRequest ==
    /\ last.op = "idle"
    /\ \E user_text \in {"yes", " Go Ahead "}, outcomes \in [1..MaxRun -> BOOLEAN] :
        Request("device_1", user_text, [DefaultEnv EXCEPT !.outcomes = outcomes])

MessageNext == AffirmativeRequest

MessageSpec == MessageInit /\ [][MessageNext]_vars

----------------------------------------------------------------------------
(* A session followed over several utterances, one processed after the other:
   the observation keeps every call of the executor made so far *)

\* what json.loads can leave in a stored command list (lines 131-134 take
\* any list as it is)
ReplayCommands == {cmd_light, cmd_media, cmd_text}
ReplayLists == UNION {[1..n -> ReplayCommands] : n \in 0..MaxCmds}

IdleAfter(done, n) == [op |-> "idle", done |-> done, n |-> n]

\* a session for device_1 is awaiting confirmation (lines 147-152)
ReplayInit ==
    /\ pending_dict \in {[device_1 |-> [commands_list |-> l,
                                         status |-> "awaiting_confirmation",
                                         timestamp |-> 0,
                                         entity_id |-> "device_1"]] :
                             l \in ReplayLists}
    /\ now = 0
    /\ api_key = TRUE
    /\ last = IdleAfter(<< >>, 0)
    /\ history_file = NoHistoryFile
    /\ log_calls = NoLogCalls
    /\ jobs = NoJobs
    /\ NoIndexActivity

\* the next utterance for device_1 goes through process_conversation_input
ReplayRequest ==
    /\ last.op = "idle"
    /\ last.n < MaxReplies
    /\ \E user_text \in UserTexts, outcomes \in Outcomes :
        \E r \in {process_conversation_input(user_text, "device_1", pending_dict, now,
                                              api_key,
                                              [DefaultEnv EXCEPT !.outcomes = outcomes])} :
            /\ pending_dict' = r.pending_dict
            /\ last' = [op |-> "request", user_text |-> user_text, pre |-> pending_dict,
                        execs |-> r.execs, raised |-> r.raised, before |-> last.done,
                        done |-> last.done \o r.execs, n |-> last.n + 1]
    /\ UNCHANGED <<now, api_key, historyVars, executorVars, indexVars>>

\* async_process returns (conversation.py lines 156-178)
ReplayRespond ==
    /\ last.op = "request"
    /\ last' = IdleAfter(last.done, last.n)
    /\ UNCHANGED <<pending_dict, now, api_key, historyVars, executorVars, indexVars>>

ReplayNext == ReplayRequest \/ ReplayRespond

ReplaySpec == ReplayInit /\ [][ReplayNext]_vars

----------------------------------------------------------------------------
(* classify_intent on its own *)

ClassifyTexts == UserTexts \cup {"Is the TEMPERATURE ok", "lights on?", ""}

\* an utterance and what the provider would answer are chosen
ClassifyInit ==
    /\ pending_dict = << >>
    /\ now = 0
    /\ api_key \in BOOLEAN
    /\ last \in {[op |-> "classify_input", user_text |-> user_text, reply |-> reply] :
                    user_text \in ClassifyTexts, reply \in ClassifyReplies}
    /\ history_file = NoHistoryFile
    /\ log_calls = NoLogCalls
    /\ jobs = NoJobs
    /\ NoIndexActivity

\* classify_intent(user_text, api_key) is called (agent_logic.py line 86)
ClassifyCall ==
    /\ last.op = "classify_input"
    /\ last' = [op |-> "classify", user_text |-> last.user_text, reply |-> last.reply,
                result |-> classify_intent(last.user_text, api_key, last.reply)]
    /\ UNCHANGED <<pending_dict, now, api_key, historyVars, executorVars, indexVars>>

ClassifyNext == ClassifyCall

ClassifySpec == ClassifyInit /\ [][ClassifyNext]_vars

----------------------------------------------------------------------------
(* Requests running side by side in the executor.  async_process awaits     *)
(* hass.async_add_executor_job(process_conversation_input, ...) and holds    *)
(* no lock, so the event loop accepts the next utterance while earlier ones  *)
(* are still running in executor threads; each job takes the steps of        *)
(* process_conversation_input in program order.                              *)

ExecutorTexts == {"yes", "NAH", "turn on the lights", "what's the weather"}

\* what the synthesizer answers in these runs
TwoCommandsText ==
    "[{\"service\": \"light.turn_on\", \"data\": {\"entity_id\": \"light.living_room\"}}, {\"service\": \"media_player.play_media\", \"data\": {\"entity_id\": \"media_player.kitchen_sonos\"}}]"

ExecutorInit ==
    /\ pending_dict = << >>
    /\ now = 0
    /\ api_key = TRUE
    /\ last = Idle
    /\ history_file = NoHistoryFile
    /\ log_calls = NoLogCalls
    /\ jobs = NoJobs
    /\ NoIndexActivity

\* conversation.py lines 151-155: the call is handed to the executor
Submit(j) ==
    /\ jobs[j].pc = "idle"
    /\ \E device_id \in Keys, user_text \in ExecutorTexts :
        jobs' = [jobs EXCEPT ![j] = [IdleJob EXCEPT !.pc = "collect",
                                                    !.device_id = device_id,
                                                    !.user_text = user_text]]
    /\ UNCHANGED <<pending_dict, now, api_key, last, historyVars, indexVars>>

\* check_and_cleanup_sessions lines 33-41: collect the expired keys
SweepCollect(j) ==
    /\ jobs[j].pc = "collect"
    /\ jobs' = [jobs EXCEPT ![j].pc = "remove",
                            ![j].expired_sessions = expired_sessions(pending_dict, now)]
    /\ UNCHANGED <<pending_dict, now, api_key, last, historyVars, indexVars>>

\* check_and_cleanup_sessions lines 44-46: pop the collected keys
SweepRemove(j) ==
    /\ jobs[j].pc = "remove"
    /\ pending_dict' = [x \in (DOMAIN pending_dict) \ jobs[j].expired_sessions |->
                            pending_dict[x]]
    /\ jobs' = [jobs EXCEPT ![j].pc = "lookup"]
    /\ UNCHANGED <<now, api_key, last, historyVars, indexVars>>

\* lines 81-83: the session lookup
Lookup(j) ==
    /\ jobs[j].pc = "lookup"
    /\ jobs' = IF has_open_session(pending_dict, jobs[j].device_id)
               THEN [jobs EXCEPT ![j].pc = "confirm",
                                 ![j].commands_list =
                                     pending_dict[jobs[j].device_id].commands_list]
               ELSE [jobs EXCEPT ![j].pc = "resolve"]
    /\ UNCHANGED <<pending_dict, now, api_key, last, historyVars, indexVars>>

\* handle_confirmation_phase lines 325-344 and 375, 392: the reply is read
\* and, when affirmative, the commands of the session found at the lookup
\* are executed
Confirm(j) ==
    /\ jobs[j].pc = "confirm"
    /\ jobs' = IF lowered_text(jobs[j].user_text) \in AffirmativeWords
               THEN [jobs EXCEPT ![j].pc = "pop",
                                 ![j].execs =
                                     execute_commands(jobs[j].commands_list, AllOk, 1,
                                         [execs |-> << >>, success_flag |-> TRUE,
                                          failed_cmds |-> << >>, raised |-> FALSE]).execs]
               ELSE IF lowered_text(jobs[j].user_text) \in NegativeWords
               THEN [jobs EXCEPT ![j].pc = "pop"]
               ELSE [jobs EXCEPT ![j].pc = "return"]
    /\ UNCHANGED <<pending_dict, now, api_key, last, historyVars, indexVars>>

\* lines 348 and 376: pending_dict.pop(device_id, None)
PopSession(j) ==
    /\ jobs[j].pc = "pop"
    /\ pending_dict' = Pop(pending_dict, jobs[j].device_id)
    /\ jobs' = [jobs EXCEPT ![j].pc = "return"]
    /\ UNCHANGED <<now, api_key, last, historyVars, indexVars>>

\* lines 86-138: classification and, for 'control', refinement, retrieval
\* and synthesis; none of them touches the session map
Resolve(j) ==
    /\ jobs[j].pc = "resolve"
    /\ \E classify_reply \in {Reply("control"), Reply("question")} :
        jobs' = IF classify_intent(jobs[j].user_text, api_key, classify_reply) = "control"
                THEN [jobs EXCEPT ![j].pc = "store",
                                  ![j].commands_list =
                                      commands_from_json(
                                          ask_gpt_for_rest_command(api_key,
                                              Reply(TwoCommandsText))).commands_list]
                ELSE [jobs EXCEPT ![j].pc = "return"]
    /\ UNCHANGED <<pending_dict, now, api_key, last, historyVars, indexVars>>

\* lines 145-152: the session is written under the key
Store(j) ==
    /\ jobs[j].pc = "store"
    /\ pending_dict' = Put(pending_dict, jobs[j].device_id,
                           [commands_list |-> jobs[j].commands_list,
                            status |-> "awaiting_confirmation",
                            timestamp |-> now,
                            entity_id |-> jobs[j].device_id])
    /\ jobs' = [jobs EXCEPT ![j].pc = "return"]
    /\ UNCHANGED <<now, api_key, last, historyVars, indexVars>>

\* the call returns and async_process answers (conversation.py lines 156-178)
Return(j) ==
    /\ jobs[j].pc = "return"
    /\ jobs' = [jobs EXCEPT ![j] = IdleJob]
    /\ UNCHANGED <<pending_dict, now, api_key, last, historyVars, indexVars>>

\* wall-clock time passes, whatever the jobs are doing: a pause as long as
\* the timeout, or a second longer
ExecutorTick ==
    /\ \E d \in {SESSION_TIMEOUT, SESSION_TIMEOUT + 1} :
        /\ now + d <= MaxTime
        /\ now' = now + d
    /\ UNCHANGED <<pending_dict, api_key, last, jobs, historyVars, indexVars>>

ExecutorNext ==
    \/ \E j \in JobIds :
        \/ Submit(j) \/ SweepCollect(j) \/ SweepRemove(j) \/ Lookup(j) \/ Confirm(j)
        \/ PopSession(j) \/ Resolve(j) \/ Store(j) \/ Return(j)
    \/ ExecutorTick

ExecutorSpec == ExecutorInit /\ [][ExecutorNext]_vars

----------------------------------------------------------------------------
(* log_command called from requests that overlap in the executor: each call
   takes the steps of command_history.py lines 31-83 in program order, job j
   logging for the j-th key *)

IdleLogger == [pc |-> "idle", entry |-> << >>, history |-> << >>]

LoggerInit ==
    /\ pending_dict = << >>
    /\ now = 0
    /\ api_key = TRUE
    /\ last = Idle
    /\ history_file = NoHistoryFile
    /\ log_calls = NoLogCalls
    /\ jobs = [j \in JobIds |-> IdleLogger]
    /\ NoIndexActivity

\* lines 31-61: the entry of an executed confirmation is built; log_calls
\* keeps every entry handed to log_command
LogBegin(j) ==
    /\ jobs[j].pc = "idle"
    /\ Len(log_calls.entries) < MaxWrites
    /\ \E e \in {[timestamp |-> Len(log_calls.entries)] @@
                      log_command("yes", "device_" \o IntStr(j), "Done.", <<cmd_light>>,
                                  "true", "executed", TRUE)[1]} :
        /\ jobs' = [jobs EXCEPT ![j] = [pc |-> "load", entry |-> <<e>>, history |-> << >>]]
        /\ log_calls' = [log_calls EXCEPT !.entries = Append(@, e)]
    /\ UNCHANGED <<pending_dict, now, api_key, last, history_file, indexVars>>

\* lines 64-72: the history is read; a missing file and a file json.load
\* cannot parse both give the empty history
LogLoad(j) ==
    /\ jobs[j].pc = "load"
    /\ jobs' = [jobs EXCEPT ![j].pc = "open",
                            ![j].history = IF history_file.exists /\ history_file.readable
                                           THEN history_file.entries ELSE << >>]
    /\ UNCHANGED <<pending_dict, now, api_key, last, historyVars, indexVars>>

\* line 82: open(HISTORY_FILE, "w") truncates the file
LogOpen(j) ==
    /\ jobs[j].pc = "open"
    /\ history_file' = [exists |-> TRUE, readable |-> FALSE, entries |-> << >>]
    /\ jobs' = [jobs EXCEPT ![j].pc = "dump"]
    /\ UNCHANGED <<pending_dict, now, api_key, last, log_calls, indexVars>>

\* lines 75-83: the loaded history with the entry appended, cut to its last
\* 1000 entries, is written
LogDump(j) ==
    /\ jobs[j].pc = "dump"
    /\ history_file' = append_history([exists |-> TRUE, readable |-> TRUE,
                                       entries |-> jobs[j].history],
                                      jobs[j].entry[1])
    /\ jobs' = [jobs EXCEPT ![j] = IdleLogger]
    /\ UNCHANGED <<pending_dict, now, api_key, last, log_calls, indexVars>>

LoggerNext == \E j \in JobIds : LogBegin(j) \/ LogLoad(j) \/ LogOpen(j) \/ LogDump(j)

LoggerSpec == LoggerInit /\ [][LoggerNext]_vars

----------------------------------------------------------------------------
(* The embedding store with a rebuild and a load running side by side.      *)
(* do_full_rebuild runs build_vector_index in the executor                   *)
(* (agent_logic.py lines 294-302) while process_conversation_input calls     *)
(* load_vector_index in another executor thread (line 106); neither takes a  *)
(* lock, so their file operations interleave.                                *)

\* the document lists a rebuild is given
RebuildDocLists == {Docs(0), Docs(1), Docs(2), Reverse(Docs(2)), Docs(MaxDocs)}

IndexInit ==
    /\ pending_dict = << >>
    /\ now = 0
    /\ api_key = TRUE
    /\ last = Idle
    /\ history_file = NoHistoryFile
    /\ log_calls = NoLogCalls
    /\ jobs = NoJobs
    /\ NoIndexActivity

\* what load_vector_index returned, with the state the two files were in
\* when it looked at them
Loaded(result, ef_state, mf_state, clean) ==
    [op |-> "load", result |-> result, ef_state |-> ef_state, mf_state |-> mf_state,
     clean |-> clean]

\* build_vector_index(docs, force_rebuild=True) lines 28-82: the documents
\* are embedded; a failed batch call or an empty result returns at once
StartRebuild ==
    /\ rebuild.pc = "idle"
    \* fail_at: the batch call that raises (0: none)
    /\ \E docs \in RebuildDocLists, fail_at \in {0, 1, 2} :
        \E e \in {embed_docs(docs, fail_at)} :
            rebuild' = [pc |-> IF e.ok THEN "open_embeddings" ELSE "idle",
                        docs |-> docs, fail_at |-> fail_at,
                        embedding_matrix |-> e.embedding_matrix,
                        before |-> <<embeddings_file, mapping_file>>,
                        result |-> IF e.ok THEN NoneValue ELSE "failed"]
    /\ loader' = [loader EXCEPT !.clean = FALSE]
    /\ last' = IF last.op = "load" THEN [last EXCEPT !.clean = FALSE] ELSE last
    /\ UNCHANGED <<pending_dict, now, api_key, historyVars, executorVars,
                   embeddings_file, mapping_file>>

\* line 85, np.save opens embeddings.npy for writing
OpenEmbeddings ==
    /\ rebuild.pc = "open_embeddings"
    /\ embeddings_file' = Truncated
    /\ rebuild' = [rebuild EXCEPT !.pc = "write_embeddings"]
    /\ UNCHANGED <<pending_dict, now, api_key, last, historyVars, executorVars,
                   mapping_file, loader>>

\* line 85, np.save has written the matrix
WriteEmbeddings ==
    /\ rebuild.pc = "write_embeddings"
    /\ embeddings_file' = Written(rebuild.embedding_matrix)
    /\ rebuild' = [rebuild EXCEPT !.pc = "open_mapping"]
    /\ UNCHANGED <<pending_dict, now, api_key, last, historyVars, executorVars,
                   mapping_file, loader>>

\* line 86, open(mapping_file, "w")
OpenMapping ==
    /\ rebuild.pc = "open_mapping"
    /\ mapping_file' = Truncated
    /\ rebuild' = [rebuild EXCEPT !.pc = "write_mapping"]
    /\ UNCHANGED <<pending_dict, now, api_key, last, historyVars, executorVars,
                   embeddings_file, loader>>

\* lines 87-90, json.dump has written the documents and the call returns
WriteMapping ==
    /\ rebuild.pc = "write_mapping"
    /\ mapping_file' = Written(json_dump(rebuild.docs))
    /\ rebuild' = [rebuild EXCEPT !.pc = "idle", !.result = "built"]
    /\ UNCHANGED <<pending_dict, now, api_key, last, historyVars, executorVars,
                   embeddings_file, loader>>

\* load_vector_index lines 346-376: both files must exist
StartLoad ==
    /\ loader.pc = "idle"
    /\ IF exists(embeddings_file) /\ exists(mapping_file)
       THEN /\ loader' = [pc |-> "load_matrix", embedding_matrix |-> NoneValue,
                          clean |-> rebuild.pc = "idle"]
            /\ last' = Idle
       ELSE /\ loader' = IdleLoader
            /\ last' = Loaded(NotFound, embeddings_file.state, mapping_file.state,
                              rebuild.pc = "idle")
    /\ UNCHANGED <<pending_dict, now, api_key, historyVars, executorVars,
                   embeddings_file, mapping_file, rebuild>>

\* line 380, np.load; a file it cannot parse raises into lines 387-389
LoadMatrix ==
    /\ loader.pc = "load_matrix"
    /\ IF embeddings_file.state = "ok"
       THEN /\ loader' = [loader EXCEPT !.pc = "load_mapping",
                                        !.embedding_matrix = embeddings_file.content]
            /\ last' = last
       ELSE /\ loader' = IdleLoader
            /\ last' = Loaded(NotFound, embeddings_file.state, "unread", loader.clean)
    /\ UNCHANGED <<pending_dict, now, api_key, historyVars, executorVars,
                   embeddings_file, mapping_file, rebuild>>

\* lines 381-389, json.load and the return
LoadMapping ==
    /\ loader.pc = "load_mapping"
    /\ last' = IF mapping_file.state = "ok"
               THEN Loaded(Index(loader.embedding_matrix,
                                 json_load(mapping_file.content)),
                           "ok", "ok", loader.clean)
               ELSE Loaded(NotFound, "ok", mapping_file.state, loader.clean)
    /\ loader' = IdleLoader
    /\ UNCHANGED <<pending_dict, now, api_key, historyVars, executorVars,
                   embeddings_file, mapping_file, rebuild>>

IndexNext ==
    \/ StartRebuild \/ OpenEmbeddings \/ WriteEmbeddings \/ OpenMapping \/ WriteMapping
    \/ StartLoad \/ LoadMatrix \/ LoadMapping

IndexSpec == IndexInit /\ [][IndexNext]_vars

----------------------------------------------------------------------------
(* Retrieval: query_vector_index and rerank_and_filter_docs called with     *)
(* inputs from bounded sets, and lines 105-126 of process_conversation_input *)
(* run over the store that rebuilds have left on disk.                       *)

\* the embeddings the provider answers here
Vectors == {<<1, 0>>, <<0, 1>>, <<1, 1>>}

\* the index_data a caller passes: an index of 1..MaxIndex documents, or
\* the (None, None, None) of a failed load
QueryIndexes ==
    UNION {{Index(m, Docs(n)) : m \in [1..n -> Vectors]} : n \in 1..MaxIndex}

\* the provider's embedding of the query text, or its failure
Queries ==
    {[raised |-> FALSE, vector |-> v] : v \in Vectors}
        \cup {[raised |-> TRUE, vector |-> << >>]}

\* what the installation answers to sync_do_rebuild
NoHa == [states_ok |-> FALSE, entities |-> 0, fail_at |-> 0]
HaStates ==
    {NoHa} \cup {[states_ok |-> TRUE, entities |-> n, fail_at |-> f] :
                    n \in 0..2, f \in 0..1}

\* the documents of test_rerank_and_filter_docs
TestDocs ==
    <<[page_content |-> "Entity: light.living_room\nName: Living Room Light",
       metadata |-> [entity_id |-> "light.living_room"]],
      [page_content |-> "Entity: light.bedroom\nName: Bedroom Light",
       metadata |-> [entity_id |-> "light.bedroom"]],
      [page_content |-> "Entity: sensor.temperature\nName: Temperature Sensor",
       metadata |-> [entity_id |-> "sensor.temperature"]],
      [page_content |-> "Entity: media_player.living_room\nName: Living Room Speaker",
       metadata |-> [entity_id |-> "media_player.living_room"]]>>

\* the candidate lists and the texts reranked here
RerankDocLists ==
    {SubSeq(TestDocs, 1, n) : n \in 0..4} \cup {Reverse(TestDocs), Docs(2),
        <<[page_content |-> "Kitchen door", metadata |-> [entity_id |-> "door",
                                                          domain |-> "cover"]],
          [page_content |-> "Kitchen", metadata |-> [name |-> "Kitchen"]]>>,
        \* six candidates, the first and the last of equal score
        [i \in 1..6 |->
            [page_content |-> "Entity " \o IntStr(i),
             metadata |-> [entity_id |-> (CASE i = 1 -> "lock.e1"
                                            [] i = 6 -> "cover.e6"
                                            [] OTHER -> "sensor.e" \o IntStr(i))]]]}
RerankTexts ==
    {"Turn on the living room lights", "turn on the living room lights",
     "Turn on the bedroom lights", "open the kitchen door", "lock up"}

\* the entities of test_filter_irrelevant_entities, and a number entity that
\* is no LED control
Entities ==
    {[entity_id |-> "light.kitchen", domain |-> "light", name |-> "Kitchen Light"],
     [entity_id |-> "number.led_brightness", domain |-> "number", name |-> "LED Brightness"],
     [entity_id |-> "input_number.volume", domain |-> "input_number", name |-> "Volume"],
     [entity_id |-> "person.john", domain |-> "person", name |-> "John"],
     [entity_id |-> "automation.morning", domain |-> "automation", name |-> "Morning Routine"],
     [entity_id |-> "number.offset", domain |-> "number", name |-> "Offset"]}
EntityLists == UNION {[1..n -> Entities] : n \in 0..MaxEntities}

\* a rebuild run from its first line to its last (sync_do_rebuild, or
\* do_full_rebuild with nothing else running)
RebuildDatabase ==
    /\ last.op = "idle"
    /\ \E ha \in HaStates :
        \E r \in {sync_do_rebuild(embeddings_file, mapping_file, ha)} :
            /\ embeddings_file' = r.embeddings_file
            /\ mapping_file' = r.mapping_file
            /\ last' = [op |-> "rebuild", result |-> r.result]
    /\ UNCHANGED <<pending_dict, now, api_key, historyVars, executorVars, rebuild, loader>>

\* one call of query_vector_index
QueryCall ==
    /\ last.op = "idle"
    /\ \E index_data \in QueryIndexes \cup {NotFound}, query \in Queries, k \in 0..MaxK,
          hass \in BOOLEAN :
        \E ha \in (IF index_data.found \/ ~hass THEN {NoHa} ELSE HaStates) :
            \E r \in query_vector_index(index_data, query, k, hass,
                                        embeddings_file, mapping_file, ha) :
                /\ embeddings_file' = r.embeddings_file
                /\ mapping_file' = r.mapping_file
                /\ last' = [op |-> "query", index_data |-> index_data, query |-> query,
                            k |-> k, hass |-> hass, results |-> r.results,
                            raised |-> r.raised, rebuilds |-> r.rebuilds,
                            loads |-> r.loads, found |-> r.found]
    /\ UNCHANGED <<pending_dict, now, api_key, historyVars, executorVars, rebuild, loader>>

\* one call of rerank_and_filter_docs
RerankCall ==
    /\ last.op = "idle"
    /\ \E user_text \in RerankTexts, docs \in RerankDocLists, filter_qty \in 0..MaxK :
        \E r \in {rerank_call(user_text, docs, filter_qty)} :
            last' = [op |-> "rerank", user_text |-> user_text, docs |-> docs,
                     filter_qty |-> filter_qty, results |-> r.results,
                     docs_after |-> r.docs]
    /\ UNCHANGED <<pending_dict, now, api_key, historyVars, executorVars, indexVars>>

\* the same call of rerank_and_filter_docs once more
RerankAgain ==
    /\ last.op = "rerank"
    /\ \E r \in {rerank_call(last.user_text, last.docs_after, last.filter_qty)} :
        last' = [op |-> "rerank_again", user_text |-> last.user_text, docs |-> last.docs,
                 filter_qty |-> last.filter_qty, results |-> last.results,
                 again |-> r.results, docs_after |-> r.docs]
    /\ UNCHANGED <<pending_dict, now, api_key, historyVars, executorVars, indexVars>>

\* filter_irrelevant_entities called on a list, and on its own result
FilterCall ==
    /\ last.op = "idle"
    /\ \E all_states \in EntityLists :
        \E filtered \in {filter_irrelevant_entities(all_states)} :
            last' = [op |-> "filter", all_states |-> all_states, filtered |-> filtered,
                     refiltered |-> filter_irrelevant_entities(filtered)]
    /\ UNCHANGED <<pending_dict, now, api_key, historyVars, executorVars, indexVars>>

\* process_conversation_input lines 105-126: load, query, rerank, build the
\* combined context and call the command synthesis
Retrieve ==
    /\ last.op = "idle"
    /\ \E refined_text \in RerankTexts, query \in Queries, ha \in HaStates,
          spotify_uri \in {NoneValue, SpotifyUri} :
        \E index_data \in {load_vector_index(embeddings_file, mapping_file)} :
            \E r \in query_vector_index(index_data, query, RetrievalK, TRUE,
                                        embeddings_file, mapping_file, ha) :
                \E final_docs \in {rerank_and_filter_docs(refined_text, r.results,
                                                          FilterQty)} :
                    /\ embeddings_file' = r.embeddings_file
                    /\ mapping_file' = r.mapping_file
                    /\ last' =
                        [op |-> "retrieve", query |-> query, raised |-> r.raised,
                         top_docs |-> r.results, final_docs |-> final_docs,
                         context |->
                             IF r.raised THEN NoneValue
                             ELSE combined_context(spotify_uri,
                                      [i \in 1..Len(final_docs) |->
                                          final_docs[i].page_content]),
                         calls |->
                             {"load_vector_index", "query_vector_index"} \cup
                             (IF r.raised THEN {}
                              ELSE {"rerank_and_filter_docs", "ask_gpt_for_rest_command"})]
    /\ UNCHANGED <<pending_dict, now, api_key, historyVars, executorVars, rebuild, loader>>

\* the call has returned
RetrievalReturn ==
    /\ last.op \in {"rebuild", "query", "rerank", "rerank_again", "filter", "retrieve"}
    /\ last' = Idle
    /\ UNCHANGED <<pending_dict, now, api_key, historyVars, executorVars, indexVars>>

RetrievalNext ==
    \/ RebuildDatabase \/ QueryCall \/ RerankCall \/ RerankAgain \/ FilterCall
    \/ Retrieve \/ RetrievalReturn

RetrievalSpec == IndexInit /\ [][RetrievalNext]_vars

----------------------------------------------------------------------------
(* Vocabulary of the properties, read off the observation of a request *)

\* a request has just run
Handled == last.op = "request"

\* the session map d holds a session awaiting confirmation for key k
OpenFor(d, k) == k \in DOMAIN d /\ d[k].status = "awaiting_confirmation"

\* the reply is one of the words, once trimmed and lower-cased
SaysYes(text) == Lower(Strip(text)) \in {"yes", "yep", "yeah", "sure", "go ahead"}
SaysNo(text) == Lower(Strip(text)) \in {"no", "nope", "nah"}

\* the age in seconds, at the time of the request, of key k's session in d
AgeAt(d, k) == last.at - d[k].timestamp

\* the request found an open confirmation for its key after the sweep
ConfirmationCase == Handled /\ OpenFor(last.swept, last.device_id)

\* the commands stored for the key of the request
StoredCommands == last.swept[last.device_id].commands_list

\* the request opened a session for its key
OpenedSession ==
    /\ Handled
    /\ last.device_id \notin DOMAIN last.swept
    /\ last.device_id \in DOMAIN pending_dict

RetrievalCalls ==
    {"classify_intent", "ask_gpt_for_refined_query", "ask_gpt_if_user_wants_music",
     "load_vector_index", "query_vector_index", "rerank_and_filter_docs",
     "ask_gpt_for_rest_command"}

StartsWith(str, prefix) ==
    Len(str) >= Len(prefix) /\ SubSeq(str, 1, Len(prefix)) = prefix

----------------------------------------------------------------------------
(* Properties *)

\* C1: the executor is called only while an affirmative reply to an open
\* session of the same key is handled, and only on commands of that session;
\* a request that opens a session returns success = False and executes nothing.
C1_NoExecutionBeforeConfirmation ==
    Handled =>
        /\ last.execs # << >> =>
              /\ OpenFor(last.swept, last.device_id)
              /\ SaysYes(last.user_text)
              /\ \A i \in 1..Len(last.execs) :
                    /\ last.execs[i].index \in 1..Len(StoredCommands)
                    /\ last.execs[i].cmd = StoredCommands[last.execs[i].index]
        /\ OpenedSession =>
              /\ last.execs = << >>
              /\ ~last.raised
              /\ last.success = FALSE

\* a control request has opened a session holding two commands
C1_Witness ==
    /\ OpenedSession
    /\ Len(pending_dict[last.device_id].commands_list) = 2
    /\ last.success = FALSE
    /\ last.execs = << >>

\* C2: a request that finds, after the sweep, a session awaiting confirmation
\* for its key is handled by handle_confirmation_phase alone: it returns one
\* of the handler's results (or the handler's exception), and classification,
\* refinement, retrieval, rerank and synthesis are not called.
C2_ConfirmationSkipsClassification ==
    ConfirmationCase =>
        /\ "handle_confirmation_phase" \in last.calls
        /\ last.calls \cap RetrievalCalls = {}
        /\ \/ last.raised
           \/ <<last.response, last.success>> \in
                 {<<"Done.", TRUE>>, <<"Request canceled.", TRUE>>,
                  <<"Please say yes or no.", FALSE>>,
                  <<"Sorry, I couldn't complete any of the requested actions.", FALSE>>}
           \/ /\ StartsWith(last.response, "Completed some actions, but had trouble with: ")
              /\ last.success = FALSE

\* an utterance that would otherwise be a control request met an open session
C2_Witness ==
    /\ ConfirmationCase
    /\ last.user_text = "turn on the lights"
    /\ last.calls = {"handle_confirmation_phase"}
    /\ last.response = "Please say yes or no."

\* C3: on an affirmative reply to an open session the executor is called
\* exactly once for every stored command, in stored order.
C3_EveryCommandExecutedInOrder ==
    (ConfirmationCase /\ SaysYes(last.user_text)) =>
        /\ Len(last.execs) = Len(StoredCommands)
        /\ \A i \in 1..Len(last.execs) :
              /\ last.execs[i].index = i
              /\ last.execs[i].cmd = StoredCommands[i]

\* C4: after an affirmative reply has been handled for a key, the session map
\* holds no session for that key.
C4_AffirmativeClearsSession ==
    (ConfirmationCase /\ SaysYes(last.user_text)) =>
        last.device_id \notin DOMAIN pending_dict

\* C5: the success flag returned for an affirmative reply is True exactly
\* when the executor reported success for every stored command.
C5_SuccessIffAllSucceeded ==
    (ConfirmationCase /\ SaysYes(last.user_text) /\ ~last.raised) =>
        (last.success <=>
            \A i \in 1..Len(StoredCommands) :
                \E j \in 1..Len(last.execs) :
                    last.execs[j].index = i /\ last.execs[j].ok)

\* executor results [True, False]: the flag is False
C5_Witness ==
    /\ ConfirmationCase
    /\ SaysYes(last.user_text)
    /\ Len(last.execs) = 2
    /\ last.execs[1].ok
    /\ ~last.execs[2].ok
    /\ ~last.raised
    /\ last.success = FALSE

\* C6: on a negative reply to an open session the executor is not called,
\* the session of the key is removed and the result is
\* ("Request canceled.", True).
C6_NegativeCancels ==
    (ConfirmationCase /\ SaysNo(last.user_text)) =>
        /\ last.execs = << >>
        /\ last.device_id \notin DOMAIN pending_dict
        /\ ~last.raised
        /\ last.response = "Request canceled."
        /\ last.success = TRUE

\* "NAH" canceled a session that held commands
C6_Witness ==
    /\ ConfirmationCase
    /\ last.user_text = "NAH"
    /\ Len(StoredCommands) > 0
    /\ last.device_id \notin DOMAIN pending_dict
    /\ last.response = "Request canceled."

\* C7: a reply to an open session that is neither affirmative nor negative
\* returns ("Please say yes or no.", False), calls the executor zero times
\* and leaves the session of the key as it was: same commands, same status,
\* same creation timestamp.
C7_RepromptLeavesSession ==
    (ConfirmationCase /\ ~SaysYes(last.user_text) /\ ~SaysNo(last.user_text)) =>
        /\ last.response = "Please say yes or no."
        /\ last.success = FALSE
        /\ ~last.raised
        /\ last.execs = << >>
        /\ last.device_id \in DOMAIN pending_dict
        /\ pending_dict[last.device_id] = last.pre[last.device_id]

\* "maybe", said some time after the session was created, leaves its
\* timestamp alone
C7_Witness ==
    /\ ConfirmationCase
    /\ last.user_text = "maybe"
    /\ last.at > last.pre[last.device_id].timestamp
    /\ pending_dict[last.device_id].timestamp = last.pre[last.device_id].timestamp
    /\ Len(pending_dict[last.device_id].commands_list) = 2

\* C8: every session older than the timeout is removed by the sweep of the
\* next request, whichever key the request is for, and no session older
\* than the timeout is left in the map.
C8_SweepEvictsExpired ==
    Handled =>
        /\ \A k \in DOMAIN last.pre :
              AgeAt(last.pre, k) > 300 => k \notin DOMAIN last.swept
        /\ \A k \in DOMAIN last.swept : AgeAt(last.swept, k) <= 300
        /\ \A k \in DOMAIN pending_dict : AgeAt(pending_dict, k) <= 300

\* a request for one key evicted the expired sessions of both keys
C8_Witness ==
    /\ Handled
    /\ \A k \in Keys : k \in DOMAIN last.pre /\ AgeAt(last.pre, k) > 300
    /\ DOMAIN last.swept = {}

\* C9: an affirmative reply arriving more than 300 s after its session was
\* created executes nothing: the session is evicted first and the utterance
\* is classified as a fresh one.
C9_LateYesIsFresh ==
    (/\ Handled
     /\ last.device_id \in DOMAIN last.pre
     /\ AgeAt(last.pre, last.device_id) > 300
     /\ SaysYes(last.user_text)) =>
        /\ last.execs = << >>
        /\ "classify_intent" \in last.calls
        /\ "handle_confirmation_phase" \notin last.calls

\* "yes" came 301 s after a session holding commands was created
C9_Witness ==
    /\ Handled
    /\ last.device_id \in DOMAIN last.pre
    /\ AgeAt(last.pre, last.device_id) = 301
    /\ Len(last.pre[last.device_id].commands_list) > 0
    /\ last.user_text = "yes"
    /\ last.execs = << >>
    /\ "classify_intent" \in last.calls

\* C10: the sweep leaves every session whose age is at most the timeout in
\* the map unchanged, and returns the number of sessions it removed.
C10_SweepKeepsLive ==
    Handled =>
        /\ \A k \in DOMAIN last.pre :
              AgeAt(last.pre, k) <= 300 =>
                  k \in DOMAIN last.swept /\ last.swept[k] = last.pre[k]
        /\ last.cleaned = Cardinality((DOMAIN last.pre) \ (DOMAIN last.swept))

\* one session was evicted while another, of age at most 300 s, was kept
C10_Witness ==
    /\ Handled
    /\ last.cleaned = 1
    /\ \E k \in DOMAIN last.pre :
          /\ AgeAt(last.pre, k) <= 300
          /\ k \in DOMAIN last.swept
          /\ last.swept[k] = last.pre[k]

\* a session of age exactly 300 s survived a sweep
C10_BoundaryKept ==
    /\ Handled
    /\ \E k \in DOMAIN last.pre : AgeAt(last.pre, k) = 300 /\ k \in DOMAIN last.swept

\* an utterance that asks for a device to be controlled
ControlUtterance(text) == text = "turn on the lights"

\* key k holds, when the request arrives, a session that has not expired
LiveFor(d, k) == OpenFor(d, k) /\ AgeAt(d, k) <= 300

\* C11 as stated: the map holds at most one session per key, and a control
\* request for a key that holds a live session replaces that session by a
\* newly synthesized one, created at the time of the request.
C11_ControlReplacesLiveSession ==
    /\ DOMAIN pending_dict \subseteq Keys
    /\ (/\ Handled
        /\ LiveFor(last.pre, last.device_id)
        /\ ControlUtterance(last.user_text)) =>
           /\ "ask_gpt_for_rest_command" \in last.calls
           /\ last.device_id \in DOMAIN pending_dict
           /\ pending_dict[last.device_id].timestamp = last.at

\* C11, amended: the map holds at most one session per key, and a request for
\* a key that holds a live session never replaces it, whatever the utterance:
\* the synthesizer is not called and the session is either removed or left
\* exactly as it was; a control utterance gets the re-prompt and the session
\* stays.  A session is only written for a key that holds none after the sweep.
C11_LiveSessionNeverReplaced ==
    /\ DOMAIN pending_dict \subseteq Keys
    /\ (Handled /\ LiveFor(last.pre, last.device_id)) =>
           /\ "ask_gpt_for_rest_command" \notin last.calls
           /\ last.device_id \in DOMAIN pending_dict =>
                 pending_dict[last.device_id] = last.pre[last.device_id]
           /\ ControlUtterance(last.user_text) =>
                 /\ last.response = "Please say yes or no."
                 /\ last.device_id \in DOMAIN pending_dict
    /\ \A k \in DOMAIN pending_dict :
           (Handled /\ (k \notin DOMAIN last.pre \/ pending_dict[k] # last.pre[k])) =>
               k = last.device_id /\ k \notin DOMAIN last.swept

\* a control utterance arrived some time after the session of its key was
\* created, within the timeout, and the session still carries its creation time
C11_Witness ==
    /\ Handled
    /\ LiveFor(last.pre, last.device_id)
    /\ ControlUtterance(last.user_text)
    /\ AgeAt(last.pre, last.device_id) \in 1..300
    /\ pending_dict[last.device_id].timestamp < last.at

\* C12: every session in the map holds a non-empty command list, also when
\* the synthesizer fell back to its empty result.
C12_SessionsHoldCommands ==
    \A k \in DOMAIN pending_dict : Len(pending_dict[k].commands_list) > 0

\* the request got as far as the synthesizer
Synthesized == Handled /\ "ask_gpt_for_rest_command" \in last.calls

\* the JSON value of the text the synthesizer handed back
SynthEntry == CHOOSE e \in SynthTable : e.text = last.synth

\* the text is valid JSON for an object or a list
SynthIsCommands == SynthEntry.ok /\ SynthEntry.value.t \in {"obj", "list"}

\* the prompts a request that opens a session of n commands can return
ConfirmationPrompts(n) ==
    {"Turn on the living room lights. Proceed?",
     "I found " \o IntStr(n) \o " devices to control. Shall I proceed?",
     "Control " \o IntStr(n) \o " devices? Proceed?"}

\* C13: when the synthesizer's text parses as a JSON object or list, the
\* request stores for its key a session {commands, status
\* awaiting_confirmation, timestamp of the request, entity_id = key} whose
\* command list is the parsed list, or the one-element list holding the
\* parsed object, and returns a confirmation prompt with success = False.
C13_ParsedCommandsOpenSession ==
    (Synthesized /\ SynthIsCommands) =>
        /\ last.device_id \in DOMAIN pending_dict
        /\ pending_dict[last.device_id] =
               [commands_list |-> IF SynthEntry.value.t = "obj"
                                  THEN <<SynthEntry.value>>
                                  ELSE SynthEntry.value.l,
                status |-> "awaiting_confirmation",
                timestamp |-> last.at,
                entity_id |-> last.device_id]
        /\ \A k \in (DOMAIN pending_dict) \ {last.device_id} :
               k \in DOMAIN last.swept /\ pending_dict[k] = last.swept[k]
        /\ last.response \in
               ConfirmationPrompts(Len(pending_dict[last.device_id].commands_list))
        /\ last.success = FALSE
        /\ ~last.raised

\* the synthesizer returned a single object, at a time other than 0, and the
\* session holds the one-element list
C13_Witness ==
    /\ Synthesized
    /\ SynthEntry.ok
    /\ SynthEntry.value.t = "obj"
    /\ last.at > 0
    /\ pending_dict[last.device_id].commands_list = <<SynthEntry.value>>
    /\ pending_dict[last.device_id].timestamp = last.at
    /\ last.success = FALSE

\* C14: when the synthesizer's text is not valid JSON, or is JSON that is
\* neither an object nor a list, the request returns (None, False), executes
\* nothing and leaves the session map as the sweep left it: no session is
\* opened for the key.
C14_UnparsableOpensNothing ==
    (Synthesized /\ ~SynthIsCommands) =>
        /\ last.response = NoneValue
        /\ last.success = FALSE
        /\ ~last.raised
        /\ last.execs = << >>
        /\ pending_dict = last.swept
        /\ last.device_id \notin DOMAIN pending_dict

\* the synthesizer answered 42 while the other key held a session: the map
\* still holds that session only
C14_Witness ==
    /\ Synthesized
    /\ last.synth = "42"
    /\ last.response = NoneValue
    /\ DOMAIN pending_dict = Keys \ {last.device_id}
    /\ pending_dict = last.pre

\* the synthesizer's text was not JSON at all
C14_WitnessInvalidJson ==
    /\ Synthesized
    /\ ~SynthEntry.ok
    /\ last.response = NoneValue
    /\ last.device_id \notin DOMAIN pending_dict

\* C15: process_conversation_input never raises: whichever external call
\* fails, it returns a (response, success) pair.
C15_NeverRaises ==
    Handled => ~last.raised

\* the status tag of the transition the request made, if it made one
TransitionStatus ==
    IF OpenedSession THEN "awaiting_confirmation"
    ELSE IF ConfirmationCase /\ SaysYes(last.user_text) THEN "executed"
    ELSE IF ConfirmationCase /\ SaysNo(last.user_text) THEN "canceled"
    ELSE IF ConfirmationCase THEN "awaiting_confirmation"
    ELSE NoneValue

\* the commands of the session the transition is about
TransitionCommands ==
    IF OpenedSession THEN pending_dict[last.device_id].commands_list
    ELSE StoredCommands

\* C16: every session transition (a session is opened, executed, canceled,
\* or re-prompted and left as it was) appends exactly one history entry, which
\* records the response text, the commands reduced to service and entity id,
\* and the status tag.  Stated for requests that return while the history
\* file can be written.
C16_EveryTransitionLogged ==
    (/\ Handled
     /\ TransitionStatus # NoneValue
     /\ last.history_ok
     /\ ~last.raised) =>
        /\ Len(last.logged) = 1
        /\ last.logged[1].response = last.response
        /\ last.logged[1].status = TransitionStatus
        /\ last.logged[1].commands = simplified_commands(TransitionCommands)

\* the last n elements of a sequence
LastOf(seq, n) == SubSeq(seq, Len(seq) - n + 1, Len(seq))

\* C17: after any sequence of log_command calls that each found the history
\* file usable, the file holds the last min(n, 1000) logged entries in call
\* order; the file never holds more than 1000 entries.
C17_HistoryIsLastThousand ==
    /\ Len(history_file.entries) <= 1000
    /\ (log_calls.intact /\ history_file.readable) =>
           history_file.entries =
               LastOf(log_calls.entries, Min(Len(log_calls.entries), 1000))

\* the 1002nd call has been logged: the two oldest entries are gone
C17_Witness ==
    /\ log_calls.intact
    /\ Len(log_calls.entries) = 1002
    /\ Len(history_file.entries) = 1000
    /\ history_file.entries[1] = log_calls.entries[3]
    /\ history_file.entries[1000] = log_calls.entries[1002]

\* the executor calls of the request that reported failure, in order
FailedExecs == SelectSeq(last.execs, LAMBDA e : ~e.ok)

\* "<service> for <entity_id>" of a well-formed command
CommandName(cmd) ==
    cmd.o.service.s \o " for " \o
        (IF "data" \in DOMAIN cmd.o /\ "entity_id" \in DOMAIN cmd.o.data.o
         THEN cmd.o.data.o.entity_id.s ELSE "unknown")

\* the partial-failure message for the failed calls f
PartialMessage(f) ==
    "Completed some actions, but had trouble with: "
        \o CommandName(f[1].cmd)
        \o (IF Len(f) >= 2 THEN ", " \o CommandName(f[2].cmd) ELSE "")
        \o (IF Len(f) > 2 THEN " and " \o IntStr(Len(f) - 2) \o " more" ELSE "")

\* C18: the message returned for an affirmative reply is "Done." when every
\* command succeeded, the apology when every command failed, and otherwise
\* the partial-failure message, which names the failed commands when at most
\* two failed and the first two of them plus the number of the others when
\* more than two failed.
C18_AffirmativeMessage ==
    (ConfirmationCase /\ SaysYes(last.user_text) /\ ~last.raised) =>
        /\ Len(last.execs) = Len(StoredCommands)
        /\ IF FailedExecs = << >>
           THEN last.response = "Done."
           ELSE IF Len(FailedExecs) = Len(StoredCommands)
           THEN last.response = "Sorry, I couldn't complete any of the requested actions."
           ELSE last.response = PartialMessage(FailedExecs)

\* three of four commands failed: two are named and one is counted
C18_Witness ==
    /\ ConfirmationCase
    /\ SaysYes(last.user_text)
    /\ Len(StoredCommands) = 4
    /\ Len(FailedExecs) = 3
    /\ last.execs[1].ok
    /\ last.response =
          "Completed some actions, but had trouble with: media_player.play_media for media_player.kitchen_sonos, turn_on for light.bedroom and 1 more"

\* one of two commands failed and is the only one named
C18_WitnessOneFailed ==
    /\ ConfirmationCase
    /\ SaysYes(last.user_text)
    /\ Len(StoredCommands) = 2
    /\ Len(FailedExecs) = 1
    /\ last.response =
          "Completed some actions, but had trouble with: light.turn_on for light.living_room"

\* C19: a request classified as weather or question, for a key with no open
\* session, returns the fixed placeholder of its intent with success = True,
\* executes no command, calls nothing beyond the classifier, and creates or
\* modifies no session: the map is as the sweep left it.
C19_PlaceholderIntents ==
    (/\ Handled
     /\ ~OpenFor(last.swept, last.device_id)
     /\ last.intent \in {"weather", "question"}) =>
        /\ last.response = (IF last.intent = "weather"
                            THEN "Weather not implemented"
                            ELSE "Question not implemented")
        /\ last.success = TRUE
        /\ ~last.raised
        /\ last.execs = << >>
        /\ last.calls = {"classify_intent"}
        /\ pending_dict = last.swept
        /\ \A k \in DOMAIN pending_dict :
               k \in DOMAIN last.pre /\ pending_dict[k] = last.pre[k]

\* the provider classified the utterance as weather while the other key held
\* a session, which is still there
C19_Witness ==
    /\ Handled
    /\ api_key
    /\ last.intent = "weather"
    /\ last.response = "Weather not implemented"
    /\ last.success = TRUE
    /\ DOMAIN pending_dict = Keys \ {last.device_id}
    /\ pending_dict = last.pre

\* the same for an utterance classified as a question
C19_WitnessQuestion ==
    /\ Handled
    /\ last.intent = "question"
    /\ last.response = "Question not implemented"
    /\ last.success = TRUE
    /\ last.execs = << >>

\* classify_intent has returned
Classified == last.op = "classify"

FiveIntents == {"control", "question", "weather", "rebuild_database", "test"}

\* the provider's answer, trimmed and lower-cased
ProviderAnswer == Lower(Strip(last.reply.content))

\* the provider was called and did not give one of the five words
ProviderFailed == api_key /\ (last.reply.raised \/ ProviderAnswer \notin FiveIntents)

\* C20 as stated: classify_intent returns one of the five intents, and
\* returns 'test' on every failure: the provider raises, its answer is
\* outside the set, or no provider can be used (no API key).
C20_TestOnAnyFailure ==
    Classified =>
        /\ last.result \in FiveIntents
        /\ (ProviderFailed \/ ~api_key) => last.result = "test"

\* C20, amended: classify_intent returns one of the five intents; with an API
\* key it returns the provider's answer when that is one of the five and
\* 'test' when the provider raises or answers anything else; without an API
\* key it never returns 'test': the keyword fallback answers 'weather' for
\* a text containing weather or temperature, else 'question' for a text
\* containing "?" or "what", else 'control'.
C20_TestOnProviderFailure ==
    Classified =>
        /\ last.result \in FiveIntents
        /\ ProviderFailed => last.result = "test"
        /\ (api_key /\ ~ProviderFailed) => last.result = ProviderAnswer
        /\ ~api_key =>
              last.result =
                  (IF \/ Contains(Lower(last.user_text), "weather")
                      \/ Contains(Lower(last.user_text), "temperature")
                   THEN "weather"
                   ELSE IF \/ Contains(Lower(last.user_text), "?")
                           \/ Contains(Lower(last.user_text), "what")
                   THEN "question"
                   ELSE "control")

\* the provider call raised and the answer is 'test'
C20_Witness ==
    /\ Classified
    /\ api_key
    /\ last.reply.raised
    /\ last.result = "test"

\* without an API key a plain utterance is classified as 'control'
C20_WitnessNoKey ==
    /\ Classified
    /\ ~api_key
    /\ last.user_text = "turn on the lights"
    /\ last.result = "control"

\* C21: when an API key is given and the provider call raises,
\* classify_intent returns 'control' as its default.
C21_RaiseDefaultsToControl ==
    (Classified /\ api_key /\ last.reply.raised) => last.result = "control"

\* job j is between its submission and its return
Running(j) == jobs[j].pc # "idle"

\* C22: two requests for the same key never overlap: while a request for a
\* key is running, no other request for that key is.
C22_SameKeyRequestsNeverOverlap ==
    \A j1, j2 \in JobIds :
        (j1 # j2 /\ Running(j1) /\ Running(j2)) =>
            jobs[j1].device_id # jobs[j2].device_id

\* what the overlap leads to: two affirmative replies for one key have both
\* executed the commands of the same session
C22_ExecutedTwice ==
    \E j1, j2 \in JobIds :
        /\ j1 # j2
        /\ jobs[j1].device_id = jobs[j2].device_id
        /\ jobs[j1].execs # << >>
        /\ jobs[j2].execs # << >>

\* load_vector_index has returned a matrix and a document list
LoadReturned == last.op = "load" /\ last.result.found

\* C23: a load that runs while a rebuild is going on never observes an
\* embedding matrix and a document list of different lengths.
C23_LoadNeverSeesMismatchedPair ==
    LoadReturned => Len(last.result.matrix) = Len(last.result.docs)

\* C24: load_vector_index returns the not-found triple whenever a file is
\* missing or unreadable or the matrix has not as many rows as there are
\* documents; every triple it returns as loaded has row_count = len(documents).
C24_LoadFailsOnBadArtifacts ==
    last.op = "load" =>
        /\ (last.ef_state # "ok" \/ last.mf_state # "ok") => ~last.result.found
        /\ last.result.found =>
               Len(last.result.matrix) = Len(last.result.docs)

\* the number of batch calls that embedding n texts takes
NumBatches(n) == (n + batch_size - 1) \div batch_size
\* a batch call of the current or latest rebuild raised
BatchErrored == rebuild.fail_at \in 1..NumBatches(Len(rebuild.docs))
\* build_vector_index has been called, and has returned
RebuildCalled == rebuild.pc # "idle" \/ rebuild.result # NoneValue
RebuildReturned == rebuild.pc = "idle" /\ rebuild.result # NoneValue

\* C25: if a batch call errors during build_vector_index the rebuild fails
\* and the two files are exactly what they were when it started.
C25_FailedBatchPersistsNothing ==
    (RebuildCalled /\ BatchErrored) =>
        /\ rebuild.result = "failed"
        /\ <<embeddings_file, mapping_file>> = rebuild.before

\* the second batch call of a rebuild over an existing index has raised
C25_Witness ==
    /\ RebuildReturned
    /\ Len(rebuild.docs) > batch_size
    /\ rebuild.fail_at = 2
    /\ rebuild.before[1].state = "ok"
    /\ rebuild.before[2].state = "ok"
    /\ rebuild.result = "failed"

\* C26: round trip: a forced rebuild of docs followed by load_vector_index
\* yields a document list equal to docs and a matrix of len(docs) rows, for
\* every document list docs.
C26_RebuildThenLoadRoundTrip ==
    (last.op = "load" /\ last.clean /\ RebuildReturned /\ ~BatchErrored) =>
        /\ last.result.found
        /\ last.result.docs = rebuild.docs
        /\ Len(last.result.matrix) = Len(rebuild.docs)

\* the round trip of a list of more than one batch, and of a reordered list
C26_RoundTripOfLongList ==
    /\ last.op = "load" /\ last.clean /\ RebuildReturned
    /\ rebuild.docs = Docs(MaxDocs)
    /\ LoadReturned /\ last.result.docs = rebuild.docs

\* query_vector_index was called with an index and the query was embedded
QueryAnswered == last.op = "query" /\ last.index_data.found /\ ~last.query.raised
\* the place of a stored document in the document list
PositionOf(docs, d) == CHOOSE i \in 1..Len(docs) : docs[i] = d
\* two rows are equally similar to the query
EquallySimilar(a, b, q) == ~LessSimilar(a, b, q) /\ ~LessSimilar(b, a, q)

\* C27: query_vector_index over n stored documents returns min(k, n)
\* distinct stored documents for every k >= 0, in descending similarity to
\* the query, documents of equal similarity in their original order.
C27_TopKByDescendingSimilarity ==
    QueryAnswered =>
        LET docs == last.index_data.docs
            rows == last.index_data.matrix
            q == last.query.vector
            res == last.results
        IN  /\ ~last.raised
            /\ Len(res) = Min(last.k, Len(docs))
            /\ \A i \in 1..Len(res) : \E j \in 1..Len(docs) : docs[j] = res[i]
            /\ \A i, j \in 1..Len(res) : i < j =>
                   /\ res[i] # res[j]
                   /\ ~LessSimilar(rows[PositionOf(docs, res[i])],
                                   rows[PositionOf(docs, res[j])], q)
                   /\ EquallySimilar(rows[PositionOf(docs, res[i])],
                                     rows[PositionOf(docs, res[j])], q)
                          => PositionOf(docs, res[i]) < PositionOf(docs, res[j])

\* k = 0 returns every stored document
C27_ZeroKReturnsEverything ==
    QueryAnswered /\ last.k = 0 /\ Len(last.results) = MaxIndex

\* two equally similar documents are returned with the later one first
C27_TieInReverseOrder ==
    /\ QueryAnswered
    /\ last.k = 2
    /\ Len(last.results) = 2
    /\ EquallySimilar(last.index_data.matrix[1], last.index_data.matrix[2],
                      last.query.vector)
    /\ last.results = <<last.index_data.docs[2], last.index_data.docs[1]>>

\* query_vector_index was called without an index
NoIndexQuery == last.op = "query" /\ ~last.index_data.found
\* the document asks for a rebuild
IsSentinel(doc) == doc.metadata.entity_id = "assistant.rebuild_request"

\* C28: without an index query_vector_index does not raise, rebuilds and
\* reloads at most once and only when hass is given, and returns exactly one
\* sentinel document when the index is still missing.
C28_NoIndexGivesSentinel ==
    NoIndexQuery =>
        /\ ~last.raised
        /\ last.rebuilds <= 1
        /\ last.loads <= last.rebuilds
        /\ last.rebuilds = 1 => last.hass
        /\ ~last.found => Len(last.results) = 1 /\ IsSentinel(last.results[1])

\* the rebuild ran, the reload found nothing, one sentinel came back
C28_Witness ==
    /\ NoIndexQuery
    /\ last.hass
    /\ last.rebuilds = 1
    /\ last.loads = 1
    /\ ~last.found
    /\ last.results = <<sentinel(PleaseRebuild)>>

\* no hass, no rebuild, one sentinel
C28_WitnessNoTrigger ==
    /\ NoIndexQuery
    /\ ~last.hass
    /\ last.rebuilds = 0
    /\ last.results = <<sentinel(PleaseRebuild)>>

\* the rebuild and the reload worked and the query went on
C28_WitnessRebuilt ==
    /\ NoIndexQuery
    /\ last.rebuilds = 1
    /\ last.found
    /\ ~last.query.raised
    /\ Len(last.results) = 2

\* lines 105-126 ran through
Retrieved == last.op = "retrieve" /\ ~last.raised

\* C29: the context passed to command synthesis is never empty; with zero
\* candidates it holds the no-devices-matched marker and synthesis is called.
C29_ContextNeverEmpty ==
    Retrieved =>
        /\ "ask_gpt_for_rest_command" \in last.calls
        /\ last.context # ""
        /\ Len(last.final_docs) = 0 => Contains(last.context, NoMatchMarker)

\* the query embedding failed over an existing index: no candidate, the
\* marker is the context
C29_Witness ==
    /\ Retrieved
    /\ last.query.raised
    /\ last.top_docs = << >>
    /\ last.final_docs = << >>
    /\ last.context = NoMatchMarker
    /\ "ask_gpt_for_rest_command" \in last.calls

\* C30: the rerank of [light.living_room, light.bedroom, sensor.temperature,
\* media_player.living_room] against "turn on the living room lights" with
\* keep_n = 2 returns [light.living_room, media_player.living_room].
C30_LivingRoomScenario ==
    (/\ last.op = "rerank"
     /\ last.docs = TestDocs
     /\ Lower(last.user_text) = "turn on the living room lights"
     /\ last.filter_qty = 2) =>
        [i \in 1..Len(last.results) |-> last.results[i].metadata.entity_id]
            = <<"light.living_room", "media_player.living_room">>

\* what the rerank returns in that scenario
C30_BedroomLightSecond ==
    /\ last.op = "rerank"
    /\ last.docs = TestDocs
    /\ last.user_text = "turn on the living room lights"
    /\ last.filter_qty = 2
    /\ last.results = <<TestDocs[1], TestDocs[2]>>

----------------------------------------------------------------------------
(* Claims about rerank_and_filter_docs and filter_irrelevant_entities *)

\* what a domain adds to a candidate's score, as the claim tells it: more for
\* an earlier preferred domain, a penalty for sensor-like domains
DomainBonusOf(domain) ==
    CASE domain = "light" -> 30
      [] domain = "climate" -> 25
      [] domain = "fan" -> 20
      [] domain = "media_player" -> 15
      [] domain = "switch" -> 10
      [] domain = "cover" -> 5
      [] domain \in {"sensor", "binary_sensor", "automation"} -> -5
      [] OTHER -> 0
\* the score the claim gives the candidate at position p (counted from 1) of
\* last.docs: (N - rank) + domain bonus or penalty + 10 when the query's first
\* location keyword occurs in the candidate's content
ExpectedScore(p) ==
    (Len(last.docs) - (p - 1)) + DomainBonusOf(extract_domain(last.docs[p]))
        + (IF /\ location_hint(Lower(last.user_text)) # NoneValue
              /\ Contains(Lower(last.docs[p].page_content),
                          location_hint(Lower(last.user_text)))
           THEN 10 ELSE 0)
\* candidate p comes before candidate q in the claimed order
RanksBefore(p, q) ==
    \/ ExpectedScore(p) > ExpectedScore(q)
    \/ ExpectedScore(p) = ExpectedScore(q) /\ p < q
\* the position the claimed order gives candidate p
ExpectedRank(p) == 1 + Cardinality({q \in 1..Len(last.docs) : RanksBefore(q, p)})

\* C31: rerank_and_filter_docs returns the first min(keep_n, N) candidates of
\* the list sorted by descending score, the score of the candidate at 0-based
\* rank i being (N - i) + domain bonus + location bonus + sensor penalty, and
\* candidates of equal score stay in their original relative order
C31_RerankByScore ==
    last.op = "rerank" =>
        /\ Len(last.results) = Min(last.filter_qty, Len(last.docs))
        /\ \A r \in 1..Len(last.results) :
               \E p \in 1..Len(last.docs) :
                   ExpectedRank(p) = r /\ last.results[r] = last.docs[p]
\* the living-room query moves the two living-room candidates of the reversed
\* test list ahead of a later order
C31_Witness ==
    /\ last.op = "rerank"
    /\ last.docs = Reverse(TestDocs)
    /\ last.user_text = "Turn on the living room lights"
    /\ last.filter_qty = 2
    /\ last.results = <<TestDocs[1], TestDocs[2]>>
\* two candidates of equal score come back in their original order
C31_WitnessTie ==
    /\ last.op = "rerank"
    /\ Len(last.docs) = 6
    /\ ExpectedScore(1) = ExpectedScore(6)
    /\ last.filter_qty = 2
    /\ last.results = <<last.docs[1], last.docs[6]>>

RECURSIVE KeptOf(_)
KeptOf(all_states) ==
    IF all_states = << >> THEN << >>
    ELSE (IF Head(all_states).domain \in
                {"number", "switch", "binary_sensor", "automation", "assist_satellite",
                 "button", "camera", "conversation", "event", "input_select", "script",
                 "select", "sensor", "stt", "sun", "tts", "time", "update", "wake_word",
                 "zone"}
          THEN << >> ELSE <<Head(all_states)>>) \o KeptOf(Tail(all_states))
EntityIds(entities) == [i \in 1..Len(entities) |-> entities[i].entity_id]

\* C33: filter_irrelevant_entities is idempotent: filtering its own result
\* returns that result
C33_FilterIdempotent ==
    last.op = "filter" => last.refiltered = last.filtered
\* a list that loses an entity the first time and none the second
C33_Witness ==
    /\ last.op = "filter"
    /\ Len(last.all_states) = MaxEntities
    /\ 0 < Len(last.filtered) /\ Len(last.filtered) < Len(last.all_states)
    /\ last.refiltered = last.filtered

\* C34: filter_irrelevant_entities returns exactly the input entities whose
\* domain is not in the exclusion set, in input order: the automation and the
\* LED-named number entity are dropped, light, input_number and person stay
C34_FilterKeepsAllowedDomains ==
    last.op = "filter" =>
        /\ last.filtered = KeptOf(last.all_states)
        /\ \A i \in 1..Len(last.filtered) :
               last.filtered[i].entity_id \notin {"automation.morning", "number.led_brightness"}
        /\ \A i \in 1..Len(last.all_states) :
               last.all_states[i].entity_id \in {"light.kitchen", "input_number.volume",
                                                 "person.john"}
                   => \E j \in 1..Len(last.filtered) : last.filtered[j] = last.all_states[i]
\* the LED number and the automation between kept entities
C34_Witness ==
    /\ last.op = "filter"
    /\ EntityIds(last.all_states) = <<"light.kitchen", "number.led_brightness", "person.john">>
    /\ EntityIds(last.filtered) = <<"light.kitchen", "person.john">>
C34_WitnessAutomation ==
    /\ last.op = "filter"
    /\ EntityIds(last.all_states) = <<"input_number.volume", "automation.morning",
                                      "light.kitchen">>
    /\ EntityIds(last.filtered) = <<"input_number.volume", "light.kitchen">>

----------------------------------------------------------------------------
(* Claims about the life of a session *)

\* a step that takes a key out of the session map
Removes(k) == k \in DOMAIN pending_dict /\ k \notin DOMAIN pending_dict'

\* C35: under fairness every opened session is eventually removed from the
\* session map (executed, canceled or evicted by a sweep), and a session is
\* removed only by a step that processes a request, never by time passing
C35_SessionsEventuallyRemoved ==
    /\ \A k \in Keys : (k \in DOMAIN pending_dict) ~> (k \notin DOMAIN pending_dict)
    /\ [][\A k \in Keys : Removes(k) => last.op = "submitted" /\ last'.op = "request"]_vars
\* a session evicted by the sweep of a request for the other key
C35_Witness ==
    /\ last.op = "request"
    /\ \E k \in Keys \ {last.device_id} : k \in last.evicted /\ k \notin DOMAIN pending_dict
\* a session removed by its own affirmative reply
C35_WitnessExecuted ==
    /\ last.op = "request"
    /\ last.user_text = "yes"
    /\ last.removed = {last.device_id}
    /\ last.evicted = {}

\* C36: over utterances processed one at a time, each command of a session is
\* passed to the executor at most once: a command an earlier affirmative
\* reply has executed is executed by no later utterance
C36_EachCommandAtMostOnce ==
    last.op = "request" =>
        \A i \in 1..Len(last.execs), j \in 1..Len(last.before) :
            last.execs[i].index # last.before[j].index
\* the first command of the session has gone to the executor a second time
C36_ExecutedAgain ==
    /\ last.op = "request"
    /\ SaysYes(last.user_text)
    /\ last.raised
    /\ OpenFor(pending_dict, "device_1")
    /\ Len(last.before) = 1 /\ last.before[1].index = 1
    /\ Len(last.execs) = 1 /\ last.execs[1].index = 1
\* without an element that raises, the session is gone after the first
\* affirmative reply and the second one executes nothing
C36_SecondYesExecutesNothing ==
    /\ last.op = "request"
    /\ SaysYes(last.user_text)
    /\ Len(last.before) = MaxCmds
    /\ last.execs = << >>

\* C37: sessions of distinct keys are isolated: a request for one key executes
\* only commands of its own session and leaves the session of every other key
\* as it was, except that the sweep removes it when it is older than the
\* timeout; it opens no session for another key
C37_SessionsIsolated ==
    last.op = "request" =>
        /\ \A i \in 1..Len(last.execs) :
               /\ OpenFor(last.pre, last.device_id)
               /\ last.execs[i].cmd = last.pre[last.device_id].commands_list[last.execs[i].index]
        /\ \A k \in Keys \ {last.device_id} :
               IF k \in DOMAIN last.pre
               THEN IF AgeAt(last.pre, k) > 300
                    THEN k \notin DOMAIN pending_dict
                    ELSE k \in DOMAIN pending_dict /\ pending_dict[k] = last.pre[k]
               ELSE k \notin DOMAIN pending_dict
\* an affirmative reply executes its own session while the other key's
\* session, younger than the timeout, stays as it was
C37_Witness ==
    /\ last.op = "request"
    /\ SaysYes(last.user_text)
    /\ Len(last.execs) > 0
    /\ last.device_id \notin DOMAIN pending_dict
    /\ \E k \in Keys \ {last.device_id} :
        /\ k \in DOMAIN last.pre
        /\ AgeAt(last.pre, k) > 0 /\ AgeAt(last.pre, k) <= 300
        /\ k \in DOMAIN pending_dict /\ pending_dict[k] = last.pre[k]
\* a request whose sweep removes the other key's expired session
C37_WitnessSwept ==
    /\ last.op = "request"
    /\ \E k \in Keys \ {last.device_id} :
        /\ k \in DOMAIN last.pre
        /\ AgeAt(last.pre, k) > 300
        /\ k \notin DOMAIN pending_dict

----------------------------------------------------------------------------
(* Claims about requests that overlap in the executor *)

\* job j takes the removal step of its sweep while no other job runs for
\* the same key
SweepRemoves(j) ==
    /\ jobs[j].pc = "remove" /\ jobs'[j].pc = "lookup"
    /\ \A i \in JobIds \ {j} : jobs[i].device_id # jobs[j].device_id

\* C38: with requests running concurrently, the sweep never removes a session
\* whose age does not exceed the timeout: a session opened for a key between
\* the sweep's collection of the expired keys and its removal is not evicted
C38_SweepRemovesOnlyExpired ==
    [][\A j \in JobIds :
           SweepRemoves(j) =>
               \A k \in (DOMAIN pending_dict) \ (DOMAIN pending_dict') :
                   now - pending_dict[k].timestamp > 300]_vars
\* a sweep that collected a key is about to remove it, and the session now
\* under that key was opened this instant
C38_FreshSessionCollected ==
    \E j \in JobIds :
        /\ jobs[j].pc = "remove"
        /\ \E k \in jobs[j].expired_sessions :
            /\ k # jobs[j].device_id
            /\ k \in DOMAIN pending_dict
            /\ pending_dict[k].timestamp = now

\* the entry is in the persisted history
Persisted(e) ==
    \E k \in 1..Len(history_file.entries) : history_file.entries[k] = e

\* C39: when log_command calls of requests for different keys overlap, every
\* entry is in the persisted history once the calls have returned: the
\* load-append-save of the history file loses none
C39_NoEntryLost ==
    (\A j \in JobIds : jobs[j].pc = "idle") =>
        \A i \in 1..Len(log_calls.entries) : Persisted(log_calls.entries[i])
\* two calls have returned and the history holds one entry, the other
\* key's entry is gone
C39_EntryLost ==
    /\ \A j \in JobIds : jobs[j].pc = "idle"
    /\ Len(log_calls.entries) = 2
    /\ log_calls.entries[1].device_id # log_calls.entries[2].device_id
    /\ Len(history_file.entries) = 1
\* two calls that did not overlap: both entries are there
C39_BothPersisted ==
    /\ \A j \in JobIds : jobs[j].pc = "idle"
    /\ Len(log_calls.entries) = 2
    /\ log_calls.entries[1].device_id # log_calls.entries[2].device_id
    /\ history_file.entries = log_calls.entries

====
